---- MODULE Spec2Model ----
(***************************************************************************)
(* Entity-tree synchronisation and editing core of OpenT A2L Forge.        *)
(*                                                                         *)
(* The UI side (src/src/App.tsx and the three editors under                *)
(* src/src/components/editors) is modelled from its source.  The backend   *)
(* behind the command channel (the Tauri commands) is not part of the      *)
(* sources; it is modelled from the specification and from the stateful    *)
(* mocks the end-to-end tests install in its place.                        *)
(*                                                                         *)
(* Every command is asynchronous: tasks holds the activations of the       *)
(* async handlers, each the command it awaits ("sent"), the backend's      *)
(* answer ("done") and the values its closure captured.  The backend       *)
(* processes one sent command at a time, in any order; the answer is       *)
(* delivered to the UI in a later step, again in any order.                *)
(*                                                                         *)
(* Each UI action is a handler followed by React's render and effects      *)
(* (Settle): the selection effect and the mounting, re-targeting and       *)
(* unmounting of the editor component with its fetch effect.               *)
(***************************************************************************)
EXTENDS Naturals, Sequences, FiniteSets, TLC

VARIABLES
    store,               \* backend: the dataset held in memory, or Nil
    disk,                \* the file system: file -> the dataset it holds, or Nil
    activeView,          \* App: activeView
    metadata,            \* App: metadata
    fileName,            \* App: fileName
    currentFilePath,     \* App: currentFilePath
    status,              \* App: status (the message pushed last), with its timer
    isBusy,              \* App: isBusy
    a2lTree,             \* App: a2lTree (the last fetched projection)
    selectedTreeItemId,  \* App: selectedTreeItemId
    isEditing,           \* App: isEditing
    recentA2lFiles,      \* App: recentA2lFiles
    editor,              \* the mounted editor component's state, or Nil
    searchQuery,         \* App: searchQuery, a sequence of characters
    sectionItemLimit,    \* App: sectionItemLimit, section id -> limit
    expandedItems,       \* App: expandedItems, a set of node ids
    elfFileName,         \* App: elfFileName
    elfSymbols,          \* App: elfSymbols
    selectedElfSymbols,  \* App: selectedElfSymbols, a set of names
    recentElfFiles,      \* App: recentElfFiles
    storage,             \* window.localStorage: key -> stored text, or Absent
    tasks,               \* the async handler activations in flight
    last                 \* history: the step taken last

vars == << store, disk, activeView, metadata, fileName, currentFilePath, status, isBusy,
           a2lTree, selectedTreeItemId, isEditing, recentA2lFiles, editor,
           searchQuery, sectionItemLimit, expandedItems, elfFileName, elfSymbols, selectedElfSymbols,
           recentElfFiles, storage, tasks, last >>

\* The search box, the pagination limits, the import view and the storage
others == << searchQuery, sectionItemLimit, expandedItems, elfFileName, elfSymbols, selectedElfSymbols,
             recentElfFiles, storage >>

-----------------------------------------------------------------------------
(* Bounds of the model *)

\* async handler activations that may be in flight at once
MaxTasks == 2
\* numeric limits an entity may carry: 0 .. MaxVal
MaxVal == 1
\* the time up to which entries are recorded in the registry on its own
MaxTime == 10
\* the length of the texts typed into the search box
MaxQuery == 2
\* the entities of the two kinds in the dataset with long sections
BigMeasurements == 401
BigCharacteristics == 201

-----------------------------------------------------------------------------
(* Values *)

\* null / undefined of a record-valued place
Nil == [nil |-> TRUE]
\* null of a string-valued place (currentFilePath, error)
NoStr == "null"

Vals == 0..MaxVal

\* [next, ...filtered].slice(0, 8)
RecentMax == 8

EditableKinds == {"Measurement", "Characteristic", "AxisPts"}

\* activeView; the settings view differs from the a2l view only in hiding
\* the side bar, and is left out.
Views == {"a2l", "elf"}

\* Files the user can pick: three datasets and one file that is no valid dataset.
Files == {"fa", "fb", "fc", "fx"}
GoodFiles == {"fa", "fb", "fc"}
\* One more dataset file, for searching
SearchFile == "ff"
\* The File objects that carry a path
WithPath == {"fa", "fx"}

PathOf(f) ==
    CASE f = "fa" -> "/d/fa" [] f = "fb" -> "/d/fb" [] f = "fc" -> "/d/fc"
      [] f = "ff" -> "/d/ff" [] OTHER -> "/d/fx"

Ent(n, k) == [name |-> n, kind |-> k, val |-> 0]

\* An entity with a long identifier
EntD(n, k, d) == [name |-> n, kind |-> k, val |-> 0, desc |-> d]

\* What the files hold: fa has two measurements, fb one of them (in another
\* position) and an axis, fc has no measurement but one characteristic; ff
\* has entities of every kind, names in mixed case and long identifiers.
Content(f) ==
    CASE f = "fa" -> [project |-> "pa", module |-> "mod_a",
                      ents |-> << Ent("m2", "Measurement"), Ent("m1", "Measurement") >>]
      [] f = "fb" -> [project |-> "pb", module |-> "mod_b",
                      ents |-> << Ent("m1", "Measurement"), Ent("a1", "AxisPts") >>]
      [] f = "ff" -> [project |-> "pf", module |-> "d0",
                      ents |-> << EntD("Ab", "Measurement", ""),
                                  EntD("m1", "Measurement", "b a"),
                                  EntD("c1", "Characteristic", "B"),
                                  Ent("a1", "AxisPts") >>]
      [] OTHER    -> [project |-> "pc", module |-> "mod_c",
                      ents |-> << Ent("c1", "Characteristic") >>]

\* A dataset file whose sections hold more Items than one window shows
BigFile == "fg"

\* The name of the i-th entity of a kind
NameOf(prefix, i) == prefix \o ToString(i)

BigContents ==
    [project |-> "pg", module |-> "mod_g",
     ents |-> [i \in 1..(BigMeasurements + BigCharacteristics) |->
                 IF i <= BigMeasurements THEN Ent(NameOf("m", i), "Measurement")
                 ELSE Ent(NameOf("c", i - BigMeasurements), "Characteristic")]]

\* The fixed minimal skeleton handleCreateA2l sends: one project, one empty module.
NewContents == [project |-> "new_project", module |-> "new_module", ents |-> << >>]

-----------------------------------------------------------------------------
(* Backend: the canonical store and the tree projection builder *)

MetadataOf(ds) == [project_name |-> ds.project, module_names |-> << ds.module >>]

TitleOf(kind) ==
    CASE kind = "Measurement" -> "Measurements" [] kind = "Characteristic" -> "Characteristics"
      [] OTHER -> "Axis Points"

\* description: a.long_identifier
DescriptionOf(e) == IF "desc" \in DOMAIN e THEN e.desc ELSE ""

\* val stands for the detail pairs, which are computed from the limits
SectionOf(ds, sid, kind) ==
    LET es == SelectSeq(ds.ents, LAMBDA e : e.kind = kind)
    IN  [id |-> sid, title |-> TitleOf(kind),
         items |-> [i \in 1..Len(es) |->
                      [id |-> es[i].name, name |-> es[i].name, kind |-> kind,
                       description |-> DescriptionOf(es[i]), val |-> es[i].val]]]

\* list_a2l_tree: one container, its sections in the fixed kind order, the items
\* of each in definition order.
BuildProjection(ds) ==
    [modules |-> << [id |-> "mod_1", name |-> ds.module,
                     sections |-> << SectionOf(ds, "sec_meas", "Measurement"),
                                     SectionOf(ds, "sec_char", "Characteristic"),
                                     SectionOf(ds, "sec_axis", "AxisPts") >>] >>]

EntIndex(ds, kind, name) ==
    {i \in DOMAIN ds.ents : ds.ents[i].kind = kind /\ ds.ents[i].name = name}

\* find / findIndex: the first entity of the kind that carries the name
FirstIndex(ds, kind, name) ==
    CHOOSE j \in EntIndex(ds, kind, name) : \A k \in EntIndex(ds, kind, name) : j <= k

\* get_measurement / get_characteristic / get_axis_pts
GetEntity(st, kind, name) ==
    IF st = Nil \/ EntIndex(st, kind, name) = {}
    THEN [ok |-> FALSE, val |-> Nil]
    ELSE LET i == FirstIndex(st, kind, name)
         IN  [ok |-> TRUE, val |-> [name |-> st.ents[i].name, val |-> st.ents[i].val]]

\* A faulty variant: the entity keeps its name, whatever the detail says.
UpdateEntityKeepsName(st, kind, name, data) ==
    LET i == FirstIndex(st, kind, name)
    IN  [st EXCEPT !.ents[i].val = data.val]

\* A faulty variant: the update is acknowledged and the entity left as it is.
UpdateEntityNothing(st, kind, name, data) == st

\* update_measurement / update_characteristic / update_axis_pts, once
\* accepted: the fields of the submitted detail replace the entity's, its
\* name among them
UpdateEntity(st, kind, name, data) ==
    LET i == FirstIndex(st, kind, name)
    IN  [st EXCEPT !.ents[i].name = data.name, !.ents[i].val = data.val]

-----------------------------------------------------------------------------
(* App: the projection as the UI reads it *)

RECURSIVE Concat(_)
Concat(ss) == IF Len(ss) = 0 THEN << >> ELSE Head(ss) \o Concat(Tail(ss))

ModuleItems(m) == Concat([s \in 1..Len(m.sections) |-> m.sections[s].items])

FlatItems(tree) ==
    IF tree = Nil THEN << >>
    ELSE Concat([m \in 1..Len(tree.modules) |-> ModuleItems(tree.modules[m])])

ItemSel(id) == [pfx |-> "item", id |-> id]

\* treeItemLookup: item-<id> -> item; a later item replaces an earlier one of
\* the same id.
treeItemLookupGet(tree, sel) ==
    LET its == FlatItems(tree)
        idx == {i \in DOMAIN its : its[i].id = sel.id}
    IN  IF sel = Nil \/ sel.pfx # "item" \/ idx = {} THEN Nil
        ELSE its[CHOOSE i \in idx : \A j \in idx : j <= i]

treeItemLookupHas(tree, sel) == treeItemLookupGet(tree, sel) # Nil

\* selectedItem
SelectedItemOf(tree, sel) == IF sel = Nil THEN Nil ELSE treeItemLookupGet(tree, sel)

\* a2lTree.modules[0]?.sections[0]?.items[0]
FirstItem(tree) ==
    IF Len(tree.modules) = 0 THEN Nil
    ELSE IF Len(tree.modules[1].sections) = 0 THEN Nil
    ELSE IF Len(tree.modules[1].sections[1].items) = 0 THEN Nil
    ELSE tree.modules[1].sections[1].items[1]

\* Faulty variants of the selection effect, against which the selection
\* properties are tried: one that repairs nothing, one that always takes the
\* first item.
SelectionEffectNoRepair(tree, sel) == sel

SelectionEffectFirst(tree, sel) ==
    IF tree = Nil THEN Nil
    ELSE IF FirstItem(tree) # Nil THEN ItemSel(FirstItem(tree).id)
    ELSE Nil

\* The selection effect.
SelectionEffect(tree, sel) ==
    IF tree = Nil THEN Nil
    ELSE IF sel # Nil /\ treeItemLookupHas(tree, sel) THEN sel
    ELSE IF FirstItem(tree) # Nil THEN ItemSel(FirstItem(tree).id)
    ELSE Nil

\* The ids of the nodes the tree view renders, which the user can click.
TreeNodeIds(tree) ==
    IF tree = Nil THEN {}
    ELSE LET its == FlatItems(tree)
         IN  {ItemSel(its[i].id) : i \in DOMAIN its}
         \cup {[pfx |-> "module", id |-> tree.modules[m].id] : m \in DOMAIN tree.modules}
         \cup UNION {{[pfx |-> "section", id |-> tree.modules[m].sections[s].id] :
                         s \in DOMAIN tree.modules[m].sections} : m \in DOMAIN tree.modules}

-----------------------------------------------------------------------------
(* App: the search box and filteredTree.  A text is the sequence of its     *)
(* characters.                                                              *)

\* The characters of the strings the projections hold
TextOf(str) ==
    CASE str = "" -> << >>
      [] str = "Measurement" -> << "M", "e", "a", "s", "u", "r", "e", "m", "e", "n", "t" >>
      [] str = "Characteristic" ->
           << "C", "h", "a", "r", "a", "c", "t", "e", "r", "i", "s", "t", "i", "c" >>
      [] str = "AxisPts" -> << "A", "x", "i", "s", "P", "t", "s" >>
      [] str = "Measurements" ->
           << "M", "e", "a", "s", "u", "r", "e", "m", "e", "n", "t", "s" >>
      [] str = "Characteristics" ->
           << "C", "h", "a", "r", "a", "c", "t", "e", "r", "i", "s", "t", "i", "c", "s" >>
      [] str = "Axis Points" -> << "A", "x", "i", "s", " ", "P", "o", "i", "n", "t", "s" >>
      [] str = "m1" -> << "m", "1" >>
      [] str = "m2" -> << "m", "2" >>
      [] str = "a1" -> << "a", "1" >>
      [] str = "c1" -> << "c", "1" >>
      [] str = "s1" -> << "s", "1" >>
      [] str = "s2" -> << "s", "2" >>
      [] str = "Ab" -> << "A", "b" >>
      [] str = "b a" -> << "b", " ", "a" >>
      [] str = "B" -> << "B" >>
      [] str = "d0" -> << "d", "0" >>
      [] str = "mod_a" -> << "m", "o", "d", "_", "a" >>
      [] str = "mod_b" -> << "m", "o", "d", "_", "b" >>
      [] str = "mod_c" -> << "m", "o", "d", "_", "c" >>
      [] str = "new_module" -> << "n", "e", "w", "_", "m", "o", "d", "u", "l", "e" >>

\* The text of a detail pair's value
DetailText(v) == IF v = 0 THEN << "0" >> ELSE IF v = 1 THEN << "1" >> ELSE << "2" >>

LowerCase(c) ==
    CASE c = "A" -> "a" [] c = "B" -> "b" [] c = "C" -> "c" [] c = "M" -> "m" [] c = "P" -> "p"
      [] OTHER -> c

\* String.prototype.toLowerCase
toLowerCase(text) == [i \in 1..Len(text) |-> LowerCase(text[i])]

IsSpace(c) == c = " "

\* String.prototype.trim
RECURSIVE trimStart(_)
trimStart(text) ==
    IF Len(text) > 0 /\ IsSpace(Head(text)) THEN trimStart(Tail(text)) ELSE text

RECURSIVE trimEnd(_)
trimEnd(text) ==
    IF Len(text) > 0 /\ IsSpace(text[Len(text)])
    THEN trimEnd(SubSeq(text, 1, Len(text) - 1)) ELSE text

trim(text) == trimEnd(trimStart(text))

\* String.prototype.includes
includes(text, query) ==
    \E i \in 0..Len(text) :
        i + Len(query) <= Len(text) /\ SubSeq(text, i + 1, i + Len(query)) = query

\* Faulty variants of the item test: one that compares the texts as they
\* are, one that also looks into the detail pairs, one that leaves the
\* description out.
ItemMatchesCaseSensitive(item, query) ==
    \/ includes(TextOf(item.name), query)
    \/ includes(TextOf(item.kind), query)
    \/ includes(TextOf(item.description), query)

ItemMatchesDetails(item, query) ==
    \/ includes(toLowerCase(TextOf(item.name)), query)
    \/ includes(toLowerCase(TextOf(item.kind)), query)
    \/ includes(toLowerCase(TextOf(item.description)), query)
    \/ includes(DetailText(item.val), query)

ItemMatchesNoDescription(item, query) ==
    \/ includes(toLowerCase(TextOf(item.name)), query)
    \/ includes(toLowerCase(TextOf(item.kind)), query)

\* The test of section.items.filter
ItemMatches(item, query) ==
    \/ includes(toLowerCase(TextOf(item.name)), query)
    \/ includes(toLowerCase(TextOf(item.kind)), query)
    \/ includes(toLowerCase(TextOf(item.description)), query)

\* module.sections.map's function: the section with the items that match,
\* or null
FilterSection(section, query) ==
    LET items == SelectSeq(section.items, LAMBDA it : ItemMatches(it, query))
    IN  IF Len(items) > 0 THEN [section EXCEPT !.items = items] ELSE Nil

\* A faulty variant: a module is kept with no section left.
FilterModuleKeepsEmpty(module, query) ==
    [module EXCEPT !.sections =
        SelectSeq([k \in DOMAIN module.sections |-> FilterSection(module.sections[k], query)],
                  LAMBDA x : x # Nil)]

\* a2lTree.modules.map's function: the module with the sections that are
\* left after .filter(Boolean), or null
FilterModule(module, query) ==
    LET sections ==
          SelectSeq([k \in DOMAIN module.sections |-> FilterSection(module.sections[k], query)],
                    LAMBDA x : x # Nil)
    IN  IF Len(sections) > 0 THEN [module EXCEPT !.sections = sections] ELSE Nil

\* filteredTree
filteredTree(tree, rawQuery) ==
    IF tree = Nil THEN Nil
    ELSE LET query == toLowerCase(trim(rawQuery))
         IN  IF Len(query) = 0 THEN tree
             ELSE [modules |->
                     SelectSeq([m \in DOMAIN tree.modules |-> FilterModule(tree.modules[m], query)],
                               LAMBDA x : x # Nil)]

-----------------------------------------------------------------------------
(* Tasks *)

\* tasks is the sequence of the activations in flight, oldest first.
HasRoom(tk) == Len(tk) < MaxTasks

Put(tk, t) == Append(tk, t)

\* The activation has run to its end.
Drop(tk, i) == [j \in 1..(Len(tk) - 1) |-> IF j < i THEN tk[j] ELSE tk[j + 1]]

\* invoke(cmd, args): the command leaves for the backend
Sent(t) == [t EXCEPT !.stage = "sent", !.res = Nil]

-----------------------------------------------------------------------------
(* The editor components (MeasurementEditor, CharacteristicEditor,         *)
(* AxisPtsEditor).  The first two are the same code but for the command    *)
(* names; AxisPtsEditor has isSaving in place of loading.                  *)

HasLoading(kind) == kind # "AxisPts"

\* useState initial values at mount
FreshEditor(kind, name) ==
    [kind |-> kind, initialName |-> name, data |-> Nil,
     loading |-> HasLoading(kind), error |-> NoStr, isSaving |-> FALSE]

\* The fetch effect's body: invoke get_<kind> with name: initialName, under a
\* fresh `active` flag.  `mounted` records that the component instance that
\* issued the command has not been unmounted (history, not read by the code).
GetTask(kind, name) ==
    [op |-> "get", kind |-> kind, name |-> name, active |-> TRUE, mounted |-> TRUE,
     stage |-> "sent", res |-> Nil]

\* The fetch effect's cleanup: active = false
EffectCleanup(t) == IF t.op = "get" THEN [t EXCEPT !.active = FALSE] ELSE t

\* The component instance goes away: its effect is cleaned up, and whatever
\* its closures set later is set on an unmounted component.
Unmounted(t) ==
    IF t.op \in {"get", "update"} THEN [EffectCleanup(t) EXCEPT !.mounted = FALSE] ELSE t

\* Which editor renderMainArea renders, if any.
EditorWanted(view, editing, tree, sel) ==
    LET item == SelectedItemOf(tree, sel)
    IN  IF view # "elf" /\ item # Nil /\ editing /\ item.kind \in EditableKinds
        THEN [kind |-> item.kind, name |-> item.name]
        ELSE Nil

\* One render of the main area followed by the editor's effects: unmount,
\* mount (fresh state, fetch), or the same instance with a new initialName
\* (state kept, cleanup, fetch again).
RenderEditor(ed, tk, want) ==
    IF want = Nil
    THEN [editor |-> Nil, ok |-> TRUE,
          tasks |-> IF ed = Nil THEN tk ELSE [i \in DOMAIN tk |-> Unmounted(tk[i])]]
    ELSE IF ed # Nil /\ ed.kind = want.kind /\ ed.initialName = want.name
    THEN [editor |-> ed, ok |-> TRUE, tasks |-> tk]
    ELSE LET same == ed # Nil /\ ed.kind = want.kind
             tk1 == IF ed = Nil THEN tk
                    ELSE IF same THEN [i \in DOMAIN tk |-> EffectCleanup(tk[i])]
                    ELSE [i \in DOMAIN tk |-> Unmounted(tk[i])]
         IN  IF ~HasRoom(tk1)
             THEN [editor |-> ed, ok |-> FALSE, tasks |-> tk]
             ELSE [editor |-> IF same THEN [ed EXCEPT !.initialName = want.name]
                              ELSE FreshEditor(want.kind, want.name),
                   ok |-> TRUE,
                   tasks |-> Put(tk1, GetTask(want.kind, want.name))]

\* What follows every handler: a render with the state as the handler left
\* it, the selection effect, and the render the effect's setState causes.
\* ok is FALSE when the model has no room left for the fetch.
Settle(view, editing, tree, rawSel, ed, tk) ==
    LET r1 == RenderEditor(ed, tk, EditorWanted(view, editing, tree, rawSel))
        sel2 == SelectionEffect(tree, rawSel)
        r2 == RenderEditor(r1.editor, r1.tasks, EditorWanted(view, editing, tree, sel2))
    IN  [sel |-> sel2, editor |-> r2.editor, tasks |-> r2.tasks, ok |-> r1.ok /\ r2.ok]

\* What the editor shows
FormShown(ed) == ed # Nil /\ ed.data # Nil /\ ~ed.loading
AlertShown(ed) == ed # Nil /\ ed.data = Nil /\ ed.error # NoStr /\ ~ed.loading

\* A faulty variant: the response is applied whatever `active` says.
GetAppliesAlways(t) == TRUE

\* The get_<kind> promise settles: .then / .catch, both under `if (active)`.
GetApplies(t) == t.active

ApplyGet(ed, t) ==
    IF ~GetApplies(t) \/ ed = Nil THEN ed
    ELSE IF t.res.ok THEN [ed EXCEPT !.data = t.res.val, !.loading = FALSE]
    ELSE [ed EXCEPT !.error = "get failed", !.loading = FALSE]

\* handleSave up to its await: invoke update_<kind> with name: initialName,
\* data.  clean is history: since this update was processed, no other command
\* has written to the store.
UpdateTask(ed) ==
    [op |-> "update", kind |-> ed.kind, name |-> ed.initialName, data |-> ed.data,
     mounted |-> TRUE, clean |-> TRUE, stage |-> "sent", res |-> Nil]

\* refreshTree up to its await: invoke list_a2l_tree
RefreshTask == [op |-> "refresh", cmd |-> "list_a2l_tree", stage |-> "sent", res |-> Nil]

\* The refreshTree that onSave starts; kind, name, data and clean are history,
\* taken over from the handleSave that called onSave.
RefreshAfter(t) ==
    [op |-> "refresh", cmd |-> "list_a2l_tree", stage |-> "sent", res |-> Nil,
     kind |-> t.kind, name |-> t.name, data |-> t.data, clean |-> t.clean]

\* A faulty variant: the editor is closed and the tree is not fetched again.
onSaveNoRefresh(tk, i) == [isEditing |-> FALSE, tasks |-> Drop(tk, i)]

\* onSave as App passes it: setIsEditing(false); refreshTree()
onSave(tk, i) ==
    [isEditing |-> FALSE,
     tasks |-> [tk EXCEPT ![i] = RefreshAfter(tk[i])]]

\* A faulty variant: the flag is left as it is.
onCancelKeeps(tk) == [isEditing |-> TRUE, tasks |-> tk]

\* onCancel as App passes it: setIsEditing(false)
onCancel(tk) == [isEditing |-> FALSE, tasks |-> tk]

\* A faulty variant: the catch forgets setError.
SaveFailedSilent(ed, t) ==
    IF ~t.mounted \/ ed = Nil THEN ed ELSE [ed EXCEPT !.isSaving = FALSE]

\* handleSave's catch: setError(String(err)) (and setIsSaving(false) in
\* AxisPtsEditor), on the instance whose closure it is
SaveFailed(ed, t) ==
    IF ~t.mounted \/ ed = Nil THEN ed
    ELSE [ed EXCEPT !.error = "update failed", !.isSaving = FALSE]

-----------------------------------------------------------------------------
(* App helpers *)

pushStatus(type, message, autoClear) == [type |-> type, message |-> message, timer |-> autoClear]

-----------------------------------------------------------------------------
(* The recent-file registry: loadRecents, saveRecents, addRecentFile over   *)
(* window.localStorage.  A stored text is modelled by what JSON.parse makes *)
(* of it: an array with its elements, a value that is no array, or a text   *)
(* that does not parse.                                                     *)

RECENT_A2L_KEY == "opent-a2l-recents"
RECENT_ELF_KEY == "opent-elf-recents"
RecentKeys == {RECENT_A2L_KEY, RECENT_ELF_KEY}

\* getItem(key) = null
Absent == [json |-> "absent"]
\* a text JSON.parse throws on
Unparsable == [json |-> "unparsable"]
\* the text of a JSON value that is no array (an object, a number, null)
NotArray == [json |-> "value"]
\* the element null of a stored array
JsonNull == [json |-> "null"]

\* A faulty variant: nothing is cut off.
SliceNone(entries) == entries

\* entries.slice(0, 8)
Slice8(entries) ==
    SubSeq(entries, 1, IF Len(entries) < RecentMax THEN Len(entries) ELSE RecentMax)

\* JSON.stringify of a list of entries: the text of an array whose elements
\* carry the entries' name, path and lastOpened
Stringify(entries) == [json |-> "array", elems |-> entries]

\* A faulty variant: every element counts as having a path.
HasPathAlways(e) == TRUE

\* !!f.path: null, undefined and the empty string are no path
HasPath(e) == e.path # NoStr /\ e.path # ""

\* The try block of loadRecents: [] when the key is absent and when the
\* value is no array; JSON.parse throws on a text that does not parse, and
\* reading f.path of a null element throws; else the elements that have a
\* path.
TryRead(raw) ==
    IF raw = Absent THEN [threw |-> FALSE, value |-> << >>]
    ELSE IF raw = Unparsable THEN [threw |-> TRUE, value |-> << >>]
    ELSE IF raw.json # "array" THEN [threw |-> FALSE, value |-> << >>]
    ELSE IF \E i \in DOMAIN raw.elems : raw.elems[i] = JsonNull
    THEN [threw |-> TRUE, value |-> << >>]
    ELSE [threw |-> FALSE, value |-> SelectSeq(raw.elems, HasPath)]

\* A faulty variant: no catch.
CatchNone(r) == r

\* catch { return []; }
CatchAll(r) == IF r.threw THEN [threw |-> FALSE, value |-> << >>] ELSE r

\* loadRecents(key): whether the call throws, and what it returns
ReadRecents(st, key) == CatchAll(TryRead(st[key]))

loadRecents(st, key) == ReadRecents(st, key).value

\* saveRecents(key, entries)
saveRecents(st, key, entries) == [st EXCEPT ![key] = Stringify(Slice8(entries))]

\* Faulty variants of addRecentFile's list: one that removes only the
\* entries equal to the new one in every field (so a file opened again at
\* another time is listed twice), one that appends.
addRecentFileNoDedup(current, next) ==
    Slice8(<< next >> \o SelectSeq(current, LAMBDA e : e # next))

addRecentFileAppend(current, next) ==
    Slice8(SelectSeq(current, LAMBDA e : e.name # next.name \/ e.path # next.path) \o << next >>)

\* addRecentFile's list, on the list the handler's closure captured:
\* [next, ...current.filter(...)].slice(0, 8)
addRecentFile(current, next) ==
    LET filtered == SelectSeq(current, LAMBDA e : e.name # next.name \/ e.path # next.path)
    IN  Slice8(<< next >> \o filtered)

\* sectionItemLimit = {}
NoLimits == [s \in {} |-> 0]

DEFAULT_SECTION_LIMIT == 200

\* sectionItemLimit[section.id] ?? DEFAULT_SECTION_LIMIT
LimitOf(limits, sid) == IF sid \in DOMAIN limits THEN limits[sid] ELSE DEFAULT_SECTION_LIMIT

ModuleNode(m) == [pfx |-> "module", id |-> m.id]
SectionNode(sec) == [pfx |-> "section", id |-> sec.id]

\* A faulty variant: the limits outlive the projection.
LimitEffectKeeps(tree, limits) == limits

\* The effect on a2lTree, for sectionItemLimit: setSectionItemLimit({})
LimitEffect(tree, limits) == NoLimits

\* The effect on a2lTree, for expandedItems: nothing without a projection;
\* else what is expanded stays, and with nothing expanded the containers are.
ExpandEffect(tree, current) ==
    IF tree = Nil THEN {}
    ELSE IF current # {} THEN current
    ELSE {ModuleNode(tree.modules[m]) : m \in DOMAIN tree.modules}

-----------------------------------------------------------------------------
(* Initial state: the app has mounted, nothing is loaded, and the recent    *)
(* list is what an earlier run persisted.                                   *)

\* last records the step taken last, for the steps the properties speak of
\* (any other step is "step"), with a note on the case it met.
Step(act, note) == [act |-> act, note |-> note]

\* For a step that replaces the projection: was the selection of before the
\* step an Item of the new projection?
Kept(tree, sel) ==
    IF sel = Nil THEN "none" ELSE IF treeItemLookupHas(tree, sel) THEN "kept" ELSE "lost"

\* The step that replaces the projection, with the note on the selection and
\* whether a section's limit had been raised before it
Replaced(tree, sel, limits) ==
    [act |-> "replace", note |-> Kept(tree, sel), raised |-> limits # NoLimits]

PersistedRecents == << [name |-> "fx", path |-> PathOf("fx")], [name |-> "fa", path |-> PathOf("fa")] >>

FileAt(path) == CHOOSE f \in Files \cup {SearchFile} : PathOf(f) = path

\* The state after the mount, with st in the storage and dk on the disk
InitOn(st, dk) ==
    /\ store = Nil
    /\ disk = dk
    /\ activeView = "a2l"
    /\ metadata = Nil
    /\ fileName = ""
    /\ currentFilePath = NoStr
    /\ status = Nil
    /\ isBusy = FALSE
    /\ a2lTree = Nil
    /\ selectedTreeItemId = Nil
    /\ isEditing = FALSE
    /\ storage = st
    /\ recentA2lFiles = loadRecents(storage, RECENT_A2L_KEY)
    /\ recentElfFiles = loadRecents(storage, RECENT_ELF_KEY)
    /\ searchQuery = << >>
    /\ sectionItemLimit = NoLimits
    /\ expandedItems = {}
    /\ elfFileName = ""
    /\ elfSymbols = << >>
    /\ selectedElfSymbols = {}
    /\ editor = Nil
    /\ tasks = << >>
    /\ last = Step("step", "none")

\* The state after the mount, with st in the storage
InitWith(st) ==
    InitOn(st, [f \in Files \cup {SearchFile} |-> IF f = "fx" THEN Nil ELSE Content(f)])

Init ==
    InitWith([k \in RecentKeys |->
                IF k = RECENT_A2L_KEY THEN Stringify(PersistedRecents) ELSE Absent])

\* The state a handler leaves is rendered and the effects run.
Rendered(view, editing, tree, rawSel, tk) ==
    LET s == Settle(view, editing, tree, rawSel, editor, tk)
    IN  /\ s.ok
        /\ selectedTreeItemId' = s.sel
        /\ editor' = s.editor
        /\ tasks' = s.tasks

-----------------------------------------------------------------------------
(* Backend steps: one command is processed against the store *)

\* A faulty variant: a load serves what the file held at first, whatever was
\* saved to it.
LoadedDatasetInitial(file) ==
    IF file = "new" THEN NewContents ELSE IF file = "fx" THEN Nil ELSE Content(file)

\* What a load command parses: the fixed skeleton, or what the file holds
\* when the command is processed (file.text() and the command that carries
\* the text are taken as one step).
LoadedDataset(file) ==
    IF file = "new" THEN NewContents ELSE disk[file]

Answer(i, res) == tasks' = [tasks EXCEPT ![i].stage = "done", ![i].res = res]

\* History: command i has written to the store, after the updates that were
\* processed before it and whose projection has not been built yet.
Touched(tk, i) ==
    [j \in DOMAIN tk |->
       IF j # i /\ \/ tk[j].op = "update" /\ tk[j].stage = "done"
                   \/ tk[j].op = "refresh" /\ tk[j].stage = "sent" /\ "clean" \in DOMAIN tk[j]
       THEN [tk[j] EXCEPT !.clean = FALSE]
       ELSE tk[j]]

\* The answer of a command that has written to the store
AnswerWritten(i, res) ==
    tasks' = Touched([tasks EXCEPT ![i].stage = "done", ![i].res = res], i)

UIUnchanged == UNCHANGED << activeView, metadata, fileName, currentFilePath, status, isBusy,
                            a2lTree, selectedTreeItemId, isEditing, recentA2lFiles, editor,
                            others >>

\* load_a2l_from_string, load_a2l_from_path
BackendLoad(i) ==
    /\ tasks[i].op \in {"open", "create"}
    /\ tasks[i].stage = "sent"
    /\ tasks[i].cmd \in {"load_a2l_from_string", "load_a2l_from_path"}
    /\ LET ds == LoadedDataset(tasks[i].file)
       IN  IF ds = Nil
           THEN /\ Answer(i, [ok |-> FALSE, val |-> Nil])
                /\ UNCHANGED store
           ELSE /\ AnswerWritten(i, [ok |-> TRUE, val |-> MetadataOf(ds)])
                /\ store' = ds
    /\ last' = Step("step", "none")
    /\ UNCHANGED disk
    /\ UIUnchanged

\* list_a2l_tree
BackendTree(i) ==
    /\ tasks[i].op \in {"open", "create", "refresh", "merge"}
    /\ tasks[i].stage = "sent"
    /\ tasks[i].cmd = "list_a2l_tree"
    /\ Answer(i, IF store = Nil THEN [ok |-> FALSE, val |-> Nil]
                 ELSE [ok |-> TRUE, val |-> BuildProjection(store)])
    /\ last' = Step("step", "none")
    /\ UNCHANGED << store, disk >>
    /\ UIUnchanged

\* get_measurement, get_characteristic, get_axis_pts
BackendGet(i) ==
    /\ tasks[i].op = "get"
    /\ tasks[i].stage = "sent"
    /\ Answer(i, GetEntity(store, tasks[i].kind, tasks[i].name))
    /\ last' = Step("step", "none")
    /\ UNCHANGED << store, disk >>
    /\ UIUnchanged

\* update_measurement, update_characteristic, update_axis_pts: fails when the
\* store has no such entity of the kind, or when the store rejects the
\* submitted detail (validation is the store's, any submission may be rejected)
BackendUpdate(i) ==
    /\ tasks[i].op = "update"
    /\ tasks[i].stage = "sent"
    /\ \E accept \in BOOLEAN :
         IF accept /\ store # Nil /\ EntIndex(store, tasks[i].kind, tasks[i].name) # {}
         THEN /\ store' = UpdateEntity(store, tasks[i].kind, tasks[i].name, tasks[i].data)
              /\ AnswerWritten(i, [ok |-> TRUE, val |-> Nil])
         ELSE /\ UNCHANGED store
              /\ Answer(i, [ok |-> FALSE, val |-> Nil])
    /\ last' = Step("step", "none")
    /\ UNCHANGED disk
    /\ UIUnchanged

-----------------------------------------------------------------------------
(* App handlers *)

\* The activity bar buttons: setActiveView
SwitchView(v) ==
    /\ v # activeView
    /\ activeView' = v
    /\ Rendered(v, isEditing, a2lTree, selectedTreeItemId, tasks)
    /\ last' = Step("step", "none")
    /\ UNCHANGED << store, disk, metadata, fileName, currentFilePath, status, isBusy, a2lTree,
                    isEditing, recentA2lFiles >>
    /\ UNCHANGED others

\* handleFileSelect up to its first await.  prior is history: the file name
\* and save location of before the attempt.
OpenTask(cmd, f, name, path) ==
    [op |-> "open", cmd |-> cmd, file |-> f, stage |-> "sent", res |-> Nil,
     name |-> name, path |-> path, recents |-> recentA2lFiles,
     prior |-> [fileName |-> fileName, currentFilePath |-> currentFilePath]]

handleFileSelect(cmd, f, name, path) ==
    /\ HasRoom(tasks)
    /\ isBusy' = TRUE
    /\ status' = pushStatus("info", "Loading ...", FALSE)
    /\ fileName' = name
    /\ currentFilePath' = path
    /\ tasks' = Put(tasks, OpenTask(cmd, f, name, path))
    /\ UNCHANGED << store, disk, activeView, metadata, a2lTree, selectedTreeItemId, isEditing,
                    recentA2lFiles, editor >>
    /\ UNCHANGED others

\* The Open A2L file input: a File, whose path the webview may or may not give
OpenFile(f) ==
    /\ activeView = "a2l"
    /\ handleFileSelect("load_a2l_from_string", f, f, IF f \in WithPath THEN PathOf(f) ELSE NoStr)
    /\ last' = Step("step", "none")

\* The same input in a webview that gives the path of every File
OpenFileLocated(f) ==
    /\ activeView = "a2l"
    /\ handleFileSelect("load_a2l_from_string", f, f, PathOf(f))
    /\ last' = Step("step", "none")

\* A click in the RECENT list, shown while no dataset is loaded
OpenRecent(k) ==
    /\ activeView = "a2l"
    /\ metadata = Nil
    /\ k \in DOMAIN recentA2lFiles
    /\ handleFileSelect("load_a2l_from_path", FileAt(recentA2lFiles[k].path),
                        recentA2lFiles[k].name, recentA2lFiles[k].path)
    /\ last' = Step("step", "none")

\* handleFileSelect after load_a2l_from_*: setMetadata, then list_a2l_tree
OpenLoaded(i) ==
    /\ tasks[i].op = "open"
    /\ tasks[i].stage = "done"
    /\ tasks[i].cmd # "list_a2l_tree"
    /\ tasks[i].res.ok
    /\ metadata' = tasks[i].res.val
    /\ tasks' = [tasks EXCEPT ![i] = Sent([tasks[i] EXCEPT !.cmd = "list_a2l_tree"])]
    /\ last' = Step("step", "none")
    /\ UNCHANGED << store, disk, activeView, fileName, currentFilePath, status, isBusy, a2lTree,
                    selectedTreeItemId, isEditing, recentA2lFiles, editor >>
    /\ UNCHANGED others

\* handleFileSelect after list_a2l_tree: setA2lTree, addRecentFile, finally
OpenTreeDone(i) ==
    /\ tasks[i].op = "open"
    /\ tasks[i].stage = "done"
    /\ tasks[i].cmd = "list_a2l_tree"
    /\ tasks[i].res.ok
    /\ a2lTree' = tasks[i].res.val
    /\ IF tasks[i].path # NoStr
       THEN LET updated == addRecentFile(tasks[i].recents,
                                         [name |-> tasks[i].name, path |-> tasks[i].path])
            IN  /\ recentA2lFiles' = updated
                /\ storage' = saveRecents(storage, RECENT_A2L_KEY, updated)
       ELSE UNCHANGED << recentA2lFiles, storage >>
    /\ sectionItemLimit' = LimitEffect(tasks[i].res.val, sectionItemLimit)
    /\ expandedItems' = ExpandEffect(tasks[i].res.val, expandedItems)
    /\ status' = pushStatus("success", "Loaded successfully.", TRUE)
    /\ isBusy' = FALSE
    /\ Rendered(activeView, isEditing, tasks[i].res.val, selectedTreeItemId,
                Drop(tasks, i))
    /\ last' = Replaced(tasks[i].res.val, selectedTreeItemId, sectionItemLimit)
    /\ UNCHANGED << store, disk, activeView, metadata, fileName, currentFilePath, isEditing >>
    /\ UNCHANGED << searchQuery, elfFileName, elfSymbols, selectedElfSymbols, recentElfFiles >>

\* handleFileSelect's catch and finally
OpenFailed(i) ==
    /\ tasks[i].op = "open"
    /\ tasks[i].stage = "done"
    /\ ~tasks[i].res.ok
    /\ status' = pushStatus("error", "Load failed", FALSE)
    /\ isBusy' = FALSE
    /\ tasks' = Drop(tasks, i)
    /\ last' = Step("OpenFailed", "none")
    /\ UNCHANGED << store, disk, activeView, metadata, fileName, currentFilePath, a2lTree,
                    selectedTreeItemId, isEditing, recentA2lFiles, editor >>
    /\ UNCHANGED others

\* handleCreateA2l up to its first await
CreateA2l ==
    /\ activeView = "a2l"
    /\ ~isBusy
    /\ HasRoom(tasks)
    /\ isBusy' = TRUE
    /\ status' = pushStatus("info", "Creating new A2L...", FALSE)
    /\ fileName' = "new_project.a2l"
    /\ currentFilePath' = NoStr
    /\ tasks' = Put(tasks, [op |-> "create", cmd |-> "load_a2l_from_string", file |-> "new",
                            stage |-> "sent", res |-> Nil])
    /\ last' = Step("step", "none")
    /\ UNCHANGED << store, disk, activeView, metadata, a2lTree, selectedTreeItemId, isEditing,
                    recentA2lFiles, editor >>
    /\ UNCHANGED others

\* handleCreateA2l after load_a2l_from_string
CreateLoaded(i) ==
    /\ tasks[i].op = "create"
    /\ tasks[i].stage = "done"
    /\ tasks[i].cmd # "list_a2l_tree"
    /\ IF tasks[i].res.ok
       THEN /\ metadata' = tasks[i].res.val
            /\ tasks' = [tasks EXCEPT ![i] = Sent([tasks[i] EXCEPT !.cmd = "list_a2l_tree"])]
            /\ UNCHANGED << status, isBusy >>
       ELSE /\ status' = pushStatus("error", "Create failed", TRUE)
            /\ isBusy' = FALSE
            /\ tasks' = Drop(tasks, i)
            /\ UNCHANGED metadata
    /\ last' = Step("step", "none")
    /\ UNCHANGED << store, disk, activeView, fileName, currentFilePath, a2lTree,
                    selectedTreeItemId, isEditing, recentA2lFiles, editor >>
    /\ UNCHANGED others

\* handleCreateA2l after list_a2l_tree
CreateTreeDone(i) ==
    /\ tasks[i].op = "create"
    /\ tasks[i].stage = "done"
    /\ tasks[i].cmd = "list_a2l_tree"
    /\ isBusy' = FALSE
    /\ IF tasks[i].res.ok
       THEN /\ a2lTree' = tasks[i].res.val
            /\ sectionItemLimit' = LimitEffect(tasks[i].res.val, sectionItemLimit)
            /\ expandedItems' = ExpandEffect(tasks[i].res.val, expandedItems)
            /\ status' = pushStatus("success", "New A2L created.", TRUE)
            /\ Rendered(activeView, isEditing, tasks[i].res.val, selectedTreeItemId,
                        Drop(tasks, i))
            /\ last' = Replaced(tasks[i].res.val, selectedTreeItemId, sectionItemLimit)
       ELSE /\ status' = pushStatus("error", "Create failed", TRUE)
            /\ tasks' = Drop(tasks, i)
            /\ last' = Step("step", "none")
            /\ UNCHANGED << a2lTree, selectedTreeItemId, editor, sectionItemLimit, expandedItems >>
    /\ UNCHANGED << store, disk, activeView, metadata, fileName, currentFilePath, isEditing,
                    recentA2lFiles >>
    /\ UNCHANGED << searchQuery, elfFileName, elfSymbols, selectedElfSymbols, recentElfFiles,
                    storage >>

\* refreshTree after list_a2l_tree: setA2lTree, or console.error
RefreshDone(i) ==
    /\ tasks[i].op = "refresh"
    /\ tasks[i].stage = "done"
    /\ IF tasks[i].res.ok
       THEN /\ a2lTree' = tasks[i].res.val
            /\ sectionItemLimit' = LimitEffect(tasks[i].res.val, sectionItemLimit)
            /\ expandedItems' = ExpandEffect(tasks[i].res.val, expandedItems)
            /\ Rendered(activeView, isEditing, tasks[i].res.val, selectedTreeItemId,
                        Drop(tasks, i))
            /\ last' = Replaced(tasks[i].res.val, selectedTreeItemId, sectionItemLimit)
       ELSE /\ tasks' = Drop(tasks, i)
            /\ last' = Step("step", "none")
            /\ UNCHANGED << a2lTree, selectedTreeItemId, editor, sectionItemLimit, expandedItems >>
    /\ UNCHANGED << store, disk, activeView, metadata, fileName, currentFilePath, status, isBusy,
                    isEditing, recentA2lFiles >>
    /\ UNCHANGED << searchQuery, elfFileName, elfSymbols, selectedElfSymbols, recentElfFiles,
                    storage >>

\* onSelectedItemsChange of the tree view, which shows filteredTree: any
\* rendered node can be clicked
SelectNode(id) ==
    /\ activeView = "a2l"
    /\ metadata # Nil
    /\ a2lTree # Nil
    /\ id \in TreeNodeIds(filteredTree(a2lTree, searchQuery))
    /\ id # selectedTreeItemId
    /\ Rendered(activeView, isEditing, a2lTree, id, tasks)
    /\ last' = Step("step", "none")
    /\ UNCHANGED << store, disk, activeView, metadata, fileName, currentFilePath, status, isBusy,
                    a2lTree, isEditing, recentA2lFiles >>
    /\ UNCHANGED others

\* onExpandedItemsChange of the tree view: a click on a container, or on a
\* section of an expanded container, expands or collapses it
ToggleExpanded(node) ==
    /\ activeView = "a2l"
    /\ metadata # Nil
    /\ a2lTree # Nil
    /\ LET shown == filteredTree(a2lTree, searchQuery)
       IN  \E m \in DOMAIN shown.modules :
              \/ node = ModuleNode(shown.modules[m])
              \/ /\ ModuleNode(shown.modules[m]) \in expandedItems
                 /\ \E x \in DOMAIN shown.modules[m].sections :
                       node = SectionNode(shown.modules[m].sections[x])
    /\ expandedItems' = IF node \in expandedItems THEN expandedItems \ {node}
                        ELSE expandedItems \cup {node}
    /\ last' = Step("step", "none")
    /\ UNCHANGED << store, disk, activeView, metadata, fileName, currentFilePath, status, isBusy,
                    a2lTree, selectedTreeItemId, isEditing, recentA2lFiles, editor, tasks >>
    /\ UNCHANGED << searchQuery, sectionItemLimit, elfFileName, elfSymbols, selectedElfSymbols,
                    recentElfFiles, storage >>

\* section.items.slice(0, limit) of an expanded section; nothing of a
\* collapsed one
VisibleCount(sec, limits, expanded) ==
    IF SectionNode(sec) \in expanded
    THEN (IF Len(sec.items) < LimitOf(limits, sec.id) THEN Len(sec.items)
          ELSE LimitOf(limits, sec.id))
    ELSE 0

\* The step of Load more
LoadMoreStep == 200

\* A faulty variant: the limits of the other sections are forgotten.
RaisedOnly(limits, sid) == [x \in {sid} |-> LimitOf(limits, sid) + LoadMoreStep]

\* c => ({...c, [section.id]: (c[section.id] ?? DEFAULT_SECTION_LIMIT) + 200})
Raised(limits, sid) ==
    [x \in DOMAIN limits \cup {sid} |->
       IF x = sid THEN LimitOf(limits, sid) + LoadMoreStep ELSE limits[x]]

\* The Load more button of a section, rendered below its visible Items while
\* some remain, inside the expanded section of an expanded container
LoadMore(sid) ==
    /\ activeView = "a2l"
    /\ metadata # Nil
    /\ a2lTree # Nil
    /\ LET shown == filteredTree(a2lTree, searchQuery)
       IN  \E m \in DOMAIN shown.modules :
              /\ ModuleNode(shown.modules[m]) \in expandedItems
              /\ \E x \in DOMAIN shown.modules[m].sections :
                    LET sec == shown.modules[m].sections[x]
                    IN  /\ sec.id = sid
                        /\ SectionNode(sec) \in expandedItems
                        /\ Len(sec.items) - VisibleCount(sec, sectionItemLimit, expandedItems) > 0
    /\ sectionItemLimit' = Raised(sectionItemLimit, sid)
    /\ last' = Step("LoadMore", sid)
    /\ UNCHANGED << store, disk, activeView, metadata, fileName, currentFilePath, status, isBusy,
                    a2lTree, selectedTreeItemId, isEditing, recentA2lFiles, editor, tasks >>
    /\ UNCHANGED << searchQuery, expandedItems, elfFileName, elfSymbols, selectedElfSymbols,
                    recentElfFiles, storage >>

\* The characters typed into the search box, and the texts of at most
\* MaxQuery of them
QueryChars == {"a", "A", "b", "d", "o", "0", " "}

\* What one key stroke makes of the text: a character more at its end, or
\* the last one deleted
Typed(text) ==
    {Append(text, c) : c \in IF Len(text) < MaxQuery THEN QueryChars ELSE {}}
    \cup (IF Len(text) > 0 THEN {SubSeq(text, 1, Len(text) - 1)} ELSE {})

\* A faulty variant: the projection is fetched again for the new query.
setSearchQueryRefetch(q, tk) == [searchQuery |-> q, tasks |-> Put(tk, RefreshTask)]

\* The search box's onChange: setSearchQuery(e.target.value)
setSearchQuery(q, tk) == [searchQuery |-> q, tasks |-> tk]

SetQuery(q) ==
    /\ activeView = "a2l"
    /\ q # searchQuery
    /\ LET r == setSearchQuery(q, tasks)
       IN  /\ searchQuery' = r.searchQuery
           /\ Rendered(activeView, isEditing, a2lTree, selectedTreeItemId, r.tasks)
    /\ last' = Step("SetQuery", "none")
    /\ UNCHANGED << store, disk, activeView, metadata, fileName, currentFilePath, status, isBusy,
                    a2lTree, isEditing, recentA2lFiles >>
    /\ UNCHANGED << sectionItemLimit, expandedItems, elfFileName, elfSymbols, selectedElfSymbols,
                    recentElfFiles, storage >>

\* The Edit Entity button: setIsEditing(true)
BeginEdit ==
    /\ activeView # "elf"
    /\ SelectedItemOf(a2lTree, selectedTreeItemId) # Nil
    /\ ~isEditing
    /\ SelectedItemOf(a2lTree, selectedTreeItemId).kind \in EditableKinds
    /\ isEditing' = TRUE
    /\ Rendered(activeView, TRUE, a2lTree, selectedTreeItemId, tasks)
    /\ last' = Step("step", "none")
    /\ UNCHANGED << store, disk, activeView, metadata, fileName, currentFilePath, status, isBusy,
                    a2lTree, recentA2lFiles >>
    /\ UNCHANGED others

\* pushStatus's timer: setStatus(null) after 3.5 s
StatusTimeout ==
    /\ status # Nil
    /\ status.timer
    /\ status' = Nil
    /\ last' = Step("step", "none")
    /\ UNCHANGED << store, disk, activeView, metadata, fileName, currentFilePath, isBusy, a2lTree,
                    selectedTreeItemId, isEditing, recentA2lFiles, editor, tasks >>
    /\ UNCHANGED others

-----------------------------------------------------------------------------
(* The recent-file registry on its own: what the storage may hold at the    *)
(* mount, the entries recorded at the end of an open, the lists read back   *)

\* The time of the mount (the entries in the storage were stamped before it)
BaseTime == 7

Entry(n, p, t) == [name |-> n, path |-> p, lastOpened |-> t]

FillerNames == << "f1", "f2", "f3", "f4", "f5", "f6", "f7" >>

\* Seven entries recorded by an earlier run, the most recent first
Fillers == [i \in 1..BaseTime |-> Entry(FillerNames[i], "/f", BaseTime + 1 - i)]

\* What the storage may hold under a key when the app mounts: nothing, a
\* text that does not parse, a value that is no array, the list an earlier
\* run saved, a list with entries that have no path (null, empty), a list
\* with a null element.
StoredInputs ==
    {Absent, Unparsable, NotArray,
     Stringify(Fillers),
     Stringify(<< Entry("a", NoStr, 3), Entry("b", "", 2), Entry("b", "/q", 1) >>),
     Stringify(<< JsonNull, Entry("b", "/q", 1) >>)}

RegistryNames == {"a", "b"}
\* The path of the file an open was given: two paths, none, the empty string
RegistryPaths == {"/p", "/q", NoStr, ""}

InitRegistry == \E st \in [RecentKeys -> StoredInputs] : InitWith(st)

RecentList(key) == IF key = RECENT_A2L_KEY THEN recentA2lFiles ELSE recentElfFiles

Stamps(list) == {list[k].lastOpened : k \in DOMAIN list}

\* Date.now(): later than the mount and than every entry recorded so far
DateNow ==
    LET ts == Stamps(recentA2lFiles) \cup Stamps(recentElfFiles) \cup {BaseTime}
    IN  1 + CHOOSE t \in ts : \A u \in ts : u <= t

Listed(list, e) == \E k \in DOMAIN list : list[k].name = e.name /\ list[k].path = e.path

\* The end of a successful open (handleFileSelect, handleLoadElf):
\* if (filePath) addRecentFile(key, current, setCurrent, {name, path, now})
RecordOpened(key, name, path) ==
    /\ DateNow <= MaxTime
    /\ LET next == Entry(name, path, DateNow)
           current == RecentList(key)
           updated == addRecentFile(current, next)
       IN  IF HasPath(next)
           THEN /\ recentA2lFiles' = IF key = RECENT_A2L_KEY THEN updated ELSE recentA2lFiles
                /\ recentElfFiles' = IF key = RECENT_ELF_KEY THEN updated ELSE recentElfFiles
                /\ storage' = saveRecents(storage, key, updated)
                /\ last' = Step("record", IF Listed(current, next) THEN "again"
                                          ELSE IF Len(current) = 0 THEN "first"
                                          ELSE IF Len(current) = RecentMax THEN "evict"
                                          ELSE "new")
           ELSE /\ UNCHANGED << recentA2lFiles, recentElfFiles, storage >>
                /\ last' = Step("record", "none")
    /\ UNCHANGED << store, disk, activeView, metadata, fileName, currentFilePath, status, isBusy,
                    a2lTree, selectedTreeItemId, isEditing, editor, tasks >>
    /\ UNCHANGED << searchQuery, sectionItemLimit, expandedItems, elfFileName, elfSymbols, selectedElfSymbols >>

\* The mount effect (the app is started again): both lists are read
MountRecents ==
    /\ recentA2lFiles' = loadRecents(storage, RECENT_A2L_KEY)
    /\ recentElfFiles' = loadRecents(storage, RECENT_ELF_KEY)
    /\ last' = Step("mount", "none")
    /\ UNCHANGED << store, disk, activeView, metadata, fileName, currentFilePath, status, isBusy,
                    a2lTree, selectedTreeItemId, isEditing, editor, tasks >>
    /\ UNCHANGED << searchQuery, sectionItemLimit, expandedItems, elfFileName, elfSymbols, selectedElfSymbols,
                    storage >>

NextRegistry ==
    \/ \E key \in RecentKeys, n \in RegistryNames, p \in RegistryPaths : RecordOpened(key, n, p)
    \/ MountRecents

SpecRegistry == InitRegistry /\ [][NextRegistry]_vars

-----------------------------------------------------------------------------
(* Saving *)

\* A faulty variant: the Save button is there, and handleSaveA2l goes on,
\* whether or not a dataset is loaded.
SaveAllowedAlways(busy, md) == ~busy

\* The Save button is rendered when metadata is set; handleSaveA2l returns
\* at once when isBusy || !metadata.
SaveAllowed(busy, md) == ~busy /\ md # Nil

SaveTask(path, prompted) ==
    [op |-> "save", cmd |-> "save_a2l_to_path", path |-> path, prompted |-> prompted,
     stage |-> "sent", res |-> Nil]

\* handleSaveA2l up to its await: with currentFilePath, or with the path the
\* prompt returns (entered = NoStr: the prompt was dismissed, and only the
\* finally block runs).
SaveA2l(entered) ==
    /\ activeView = "a2l"
    /\ SaveAllowed(isBusy, metadata)
    /\ IF currentFilePath # NoStr
       THEN /\ entered = NoStr
            /\ HasRoom(tasks)
            /\ isBusy' = TRUE
            /\ status' = pushStatus("info", "Saving...", FALSE)
            /\ tasks' = Put(tasks, SaveTask(currentFilePath, FALSE))
       ELSE IF entered # NoStr
       THEN /\ HasRoom(tasks)
            /\ isBusy' = TRUE
            /\ status' = pushStatus("info", "Saving...", FALSE)
            /\ tasks' = Put(tasks, SaveTask(entered, TRUE))
       ELSE UNCHANGED << isBusy, status, tasks >>
    /\ last' = Step("step", "none")
    /\ UNCHANGED << store, disk, activeView, metadata, fileName, currentFilePath, a2lTree,
                    selectedTreeItemId, isEditing, recentA2lFiles, editor >>
    /\ UNCHANGED others

\* save_a2l_to_path: the dataset in memory is written to the file at the
\* path; fails when no dataset is loaded, and when the file cannot be written.
BackendSave(i) ==
    /\ tasks[i].op = "save"
    /\ tasks[i].stage = "sent"
    /\ \E written \in BOOLEAN :
         IF written /\ store # Nil
         THEN /\ disk' = [disk EXCEPT ![FileAt(tasks[i].path)] = store]
              /\ Answer(i, [ok |-> TRUE, val |-> Nil])
         ELSE /\ UNCHANGED disk
              /\ Answer(i, [ok |-> FALSE, val |-> Nil])
    /\ last' = Step("step", "none")
    /\ UNCHANGED store
    /\ UIUnchanged

\* handleSaveA2l after save_a2l_to_path: the success status (and, after the
\* prompt, setCurrentFilePath and setFileName), or the catch; finally
SaveDone(i) ==
    /\ tasks[i].op = "save"
    /\ tasks[i].stage = "done"
    /\ IF tasks[i].res.ok
       THEN /\ status' = pushStatus("success", "Saved successfully.", TRUE)
            /\ IF tasks[i].prompted
               THEN /\ currentFilePath' = tasks[i].path
                    /\ fileName' = FileAt(tasks[i].path)
               ELSE UNCHANGED << currentFilePath, fileName >>
       ELSE /\ status' = pushStatus("error", "Save failed", TRUE)
            /\ UNCHANGED << currentFilePath, fileName >>
    /\ isBusy' = FALSE
    /\ tasks' = Drop(tasks, i)
    /\ last' = Step("SaveDone", IF tasks[i].res.ok THEN "saved" ELSE "failed")
    /\ UNCHANGED << store, disk, activeView, metadata, a2lTree, selectedTreeItemId, isEditing,
                    recentA2lFiles, editor >>
    /\ UNCHANGED others

\* The app is closed and started again: the backend's memory is gone, every
\* handler under way with it, the UI state is that of a fresh mount, and the
\* files and the local storage are what they were.
Restart ==
    /\ store' = Nil
    /\ activeView' = "a2l"
    /\ metadata' = Nil
    /\ fileName' = ""
    /\ currentFilePath' = NoStr
    /\ status' = Nil
    /\ isBusy' = FALSE
    /\ a2lTree' = Nil
    /\ selectedTreeItemId' = Nil
    /\ isEditing' = FALSE
    /\ recentA2lFiles' = loadRecents(storage, RECENT_A2L_KEY)
    /\ recentElfFiles' = loadRecents(storage, RECENT_ELF_KEY)
    /\ searchQuery' = << >>
    /\ sectionItemLimit' = NoLimits
    /\ expandedItems' = {}
    /\ elfFileName' = ""
    /\ elfSymbols' = << >>
    /\ selectedElfSymbols' = {}
    /\ editor' = Nil
    /\ tasks' = << >>
    /\ last' = Step("Restart", "none")
    /\ UNCHANGED << disk, storage >>

-----------------------------------------------------------------------------
(* The import view: loading the symbols of a binary, selecting symbols,     *)
(* adding them to the dataset                                               *)

Sym(n, a) == [name |-> n, address |-> a]

\* The binaries the user can pick: two that hold symbols and one that is no
\* binary the inspector reads.  ea has two symbols of one name (two static
\* variables) and one that carries the name of a measurement of fa and fb.
Binaries == {"ea", "eb", "ex"}

BinaryPath(b) == CASE b = "ea" -> "/d/ea" [] b = "eb" -> "/d/eb" [] OTHER -> "/d/ex"

BinaryAt(path) == CHOOSE b \in Binaries : BinaryPath(b) = path

SymbolsOf(b) ==
    CASE b = "ea" -> << Sym("s1", 1), Sym("m1", 2), Sym("s1", 3) >>
      [] b = "eb" -> << Sym("s2", 1) >>
      [] OTHER    -> << >>

\* The binaries the inspector reads
Readable == {"ea", "eb"}

SymbolNames(syms) == {syms[i].name : i \in DOMAIN syms}

ElfTask(b, name, path) ==
    [op |-> "elf", cmd |-> "load_elf_symbols", file |-> b, name |-> name, path |-> path,
     recents |-> recentElfFiles, stage |-> "sent", res |-> Nil]

\* handleLoadElf up to its await; without a path it ends at once with the
\* error status.
handleLoadElf(b, name, path) ==
    /\ IF path = NoStr
       THEN /\ status' = pushStatus("error", "Cannot load ELF (path requisite)", TRUE)
            /\ isBusy' = FALSE
            /\ UNCHANGED << elfFileName, tasks >>
       ELSE /\ HasRoom(tasks)
            /\ isBusy' = TRUE
            /\ status' = pushStatus("info", "Loading ELF symbols...", FALSE)
            /\ elfFileName' = name
            /\ tasks' = Put(tasks, ElfTask(b, name, path))
    /\ UNCHANGED << store, disk, activeView, metadata, fileName, currentFilePath, a2lTree,
                    selectedTreeItemId, isEditing, recentA2lFiles, editor >>
    /\ UNCHANGED << searchQuery, sectionItemLimit, expandedItems, elfSymbols, selectedElfSymbols,
                    recentElfFiles, storage >>

\* The Load ELF Binary file input: a File, whose path the webview may or may
\* not give
LoadElf(b, located) ==
    /\ activeView = "elf"
    /\ handleLoadElf(b, b, IF located THEN BinaryPath(b) ELSE NoStr)
    /\ last' = Step("step", "none")

\* A click in the RECENT list of the import view
LoadRecentElf(k) ==
    /\ activeView = "elf"
    /\ k \in DOMAIN recentElfFiles
    /\ handleLoadElf(BinaryAt(recentElfFiles[k].path), recentElfFiles[k].name,
                     recentElfFiles[k].path)
    /\ last' = Step("step", "none")

\* load_elf_symbols: the symbols of the binary at the path, or a failure
BackendElf(i) ==
    /\ tasks[i].op = "elf"
    /\ tasks[i].stage = "sent"
    /\ Answer(i, IF tasks[i].file \notin Readable THEN [ok |-> FALSE, val |-> Nil]
                 ELSE [ok |-> TRUE, val |-> SymbolsOf(tasks[i].file)])
    /\ last' = Step("step", "none")
    /\ UNCHANGED << store, disk >>
    /\ UIUnchanged

\* handleLoadElf after load_elf_symbols: setElfSymbols, the selection
\* emptied, addRecentFile; or the catch; finally
ElfDone(i) ==
    /\ tasks[i].op = "elf"
    /\ tasks[i].stage = "done"
    /\ IF tasks[i].res.ok
       THEN LET updated == addRecentFile(tasks[i].recents,
                                         [name |-> tasks[i].name, path |-> tasks[i].path])
            IN  /\ elfSymbols' = tasks[i].res.val
                /\ selectedElfSymbols' = {}
                /\ recentElfFiles' = updated
                /\ storage' = saveRecents(storage, RECENT_ELF_KEY, updated)
                /\ status' = pushStatus("success", "Loaded symbols.", TRUE)
       ELSE /\ elfSymbols' = << >>
            /\ status' = pushStatus("error", "ELF load failed", TRUE)
            /\ UNCHANGED << selectedElfSymbols, recentElfFiles, storage >>
    /\ isBusy' = FALSE
    /\ tasks' = Drop(tasks, i)
    /\ last' = Step("ElfDone", IF tasks[i].res.ok THEN "loaded" ELSE "failed")
    /\ UNCHANGED << store, disk, activeView, metadata, fileName, currentFilePath, a2lTree,
                    selectedTreeItemId, isEditing, recentA2lFiles, editor >>
    /\ UNCHANGED << searchQuery, sectionItemLimit, expandedItems, elfFileName >>

ImportUnchanged ==
    /\ UNCHANGED << store, disk, activeView, metadata, fileName, currentFilePath, status,
                    isBusy, a2lTree, selectedTreeItemId, isEditing, recentA2lFiles, editor >>
    /\ UNCHANGED << searchQuery, sectionItemLimit, expandedItems, elfFileName, elfSymbols, recentElfFiles,
                    storage, tasks >>

\* A click on a row of the symbol table: the name is added to or removed from
\* the selection
ToggleSymbol(n) ==
    /\ activeView = "elf"
    /\ n \in SymbolNames(elfSymbols)
    /\ selectedElfSymbols' = IF n \in selectedElfSymbols THEN selectedElfSymbols \ {n}
                             ELSE selectedElfSymbols \cup {n}
    /\ last' = Step("step", "none")
    /\ ImportUnchanged

\* The check box of the table head: every name, or none
SelectAllSymbols(checked) ==
    /\ activeView = "elf"
    /\ Len(elfSymbols) > 0
    /\ selectedElfSymbols' = IF checked THEN SymbolNames(elfSymbols) ELSE {}
    /\ selectedElfSymbols' # selectedElfSymbols
    /\ last' = Step("step", "none")
    /\ ImportUnchanged

\* A faulty variant: the Add to Project button works without a dataset.
AddAllowedAlways(selected, md) == selected # {}

\* The Add to Project button is disabled, and handleAddSymbols returns, when
\* nothing is selected or no dataset is loaded.
AddAllowed(selected, md) == selected # {} /\ md # Nil

\* elfSymbols.filter(s => selectedElfSymbols.has(s.name))
ToAdd(syms, selected) == SelectSeq(syms, LAMBDA y : y.name \in selected)

\* handleAddSymbols up to its first await
AddSymbols ==
    /\ activeView = "elf"
    /\ AddAllowed(selectedElfSymbols, metadata)
    /\ HasRoom(tasks)
    /\ isBusy' = TRUE
    /\ tasks' = Put(tasks, [op |-> "merge", cmd |-> "create_measurements_from_elf",
                            moduleName |-> IF metadata = Nil THEN NoStr
                                           ELSE metadata.module_names[1],
                            symbols |-> ToAdd(elfSymbols, selectedElfSymbols),
                            result |-> Nil, stage |-> "sent", res |-> Nil])
    /\ last' = Step("step", "none")
    /\ UNCHANGED << store, disk, activeView, metadata, fileName, currentFilePath, status,
                    a2lTree, selectedTreeItemId, isEditing, recentA2lFiles, editor >>
    /\ UNCHANGED others

\* The merger of the backend.  A faulty variant: every symbol becomes an
\* entity, whether or not the name is taken.
RECURSIVE MergeSymbolsAll(_, _)
MergeSymbolsAll(ents, syms) ==
    IF Len(syms) = 0 THEN ents
    ELSE MergeSymbolsAll(Append(ents, Ent(Head(syms).name, "Measurement")), Tail(syms))

\* A faulty variant: a symbol whose name is taken overwrites the Measurement
\* that carries it with the defaults.
RECURSIVE MergeSymbolsOverwrite(_, _)
MergeSymbolsOverwrite(ents, syms) ==
    IF Len(syms) = 0 THEN ents
    ELSE LET y == Head(syms)
             at == {j \in DOMAIN ents : ents[j].kind = "Measurement" /\ ents[j].name = y.name}
         IN  MergeSymbolsOverwrite(
                 IF at = {} THEN Append(ents, Ent(y.name, "Measurement"))
                 ELSE [j \in DOMAIN ents |-> IF j \in at THEN Ent(y.name, "Measurement")
                                             ELSE ents[j]],
                 Tail(syms))

\* The symbols are taken in order: one whose name a Measurement of the
\* container carries is skipped, any other becomes a new Measurement with the
\* defaults (the address, formatted, is among them and is left out).
RECURSIVE MergeSymbols(_, _)
MergeSymbols(ents, syms) ==
    IF Len(syms) = 0 THEN ents
    ELSE LET y == Head(syms)
             taken == \E j \in DOMAIN ents :
                         ents[j].kind = "Measurement" /\ ents[j].name = y.name
         IN  MergeSymbols(IF taken THEN ents ELSE Append(ents, Ent(y.name, "Measurement")),
                          Tail(syms))

\* create_measurements_from_elf: fails when no dataset is loaded; else the
\* whole batch is merged and the metadata and the number of entities created
\* are returned.
BackendMerge(i) ==
    /\ tasks[i].op = "merge"
    /\ tasks[i].stage = "sent"
    /\ tasks[i].cmd = "create_measurements_from_elf"
    /\ IF store = Nil
       THEN /\ Answer(i, [ok |-> FALSE, val |-> Nil])
            /\ UNCHANGED store
       ELSE LET merged == MergeSymbols(store.ents, tasks[i].symbols)
            IN  /\ store' = [store EXCEPT !.ents = merged]
                /\ AnswerWritten(i, [ok |-> TRUE,
                                     val |-> [metadata |-> MetadataOf(store),
                                              createdCount |-> Len(merged) - Len(store.ents)]])
    /\ last' = Step("BackendMerge", "none")
    /\ UNCHANGED disk
    /\ UIUnchanged

\* `Added ${toAdd.length} measurements.`
AddedMessage(n) ==
    CASE n = 0 -> "Added 0 measurements." [] n = 1 -> "Added 1 measurements."
      [] n = 2 -> "Added 2 measurements." [] n = 3 -> "Added 3 measurements."
      [] OTHER -> "Added measurements."

\* handleAddSymbols after create_measurements_from_elf: setMetadata, then
\* list_a2l_tree; result stays in the closure
MergeLoaded(i) ==
    /\ tasks[i].op = "merge"
    /\ tasks[i].stage = "done"
    /\ tasks[i].cmd # "list_a2l_tree"
    /\ tasks[i].res.ok
    /\ metadata' = tasks[i].res.val.metadata
    /\ tasks' = [tasks EXCEPT ![i] = Sent([tasks[i] EXCEPT !.cmd = "list_a2l_tree",
                                                           !.result = tasks[i].res.val])]
    /\ last' = Step("step", "none")
    /\ UNCHANGED << store, disk, activeView, fileName, currentFilePath, status, isBusy, a2lTree,
                    selectedTreeItemId, isEditing, recentA2lFiles, editor >>
    /\ UNCHANGED others

\* handleAddSymbols after list_a2l_tree: setA2lTree, the status with the
\* number of symbols submitted, the selection emptied; finally
MergeTreeDone(i) ==
    /\ tasks[i].op = "merge"
    /\ tasks[i].stage = "done"
    /\ tasks[i].cmd = "list_a2l_tree"
    /\ tasks[i].res.ok
    /\ a2lTree' = tasks[i].res.val
    /\ sectionItemLimit' = LimitEffect(tasks[i].res.val, sectionItemLimit)
    /\ expandedItems' = ExpandEffect(tasks[i].res.val, expandedItems)
    /\ status' = pushStatus("success", AddedMessage(Len(tasks[i].symbols)), TRUE)
    /\ selectedElfSymbols' = {}
    /\ isBusy' = FALSE
    /\ Rendered(activeView, isEditing, tasks[i].res.val, selectedTreeItemId, Drop(tasks, i))
    /\ last' = Replaced(tasks[i].res.val, selectedTreeItemId, sectionItemLimit)
    /\ UNCHANGED << store, disk, activeView, metadata, fileName, currentFilePath, isEditing,
                    recentA2lFiles >>
    /\ UNCHANGED << searchQuery, elfFileName, elfSymbols, recentElfFiles, storage >>

\* handleAddSymbols' catch and finally
MergeFailed(i) ==
    /\ tasks[i].op = "merge"
    /\ tasks[i].stage = "done"
    /\ ~tasks[i].res.ok
    /\ status' = pushStatus("error", "Failed to add symbols", TRUE)
    /\ isBusy' = FALSE
    /\ tasks' = Drop(tasks, i)
    /\ last' = Step("MergeFailed", "none")
    /\ UNCHANGED << store, disk, activeView, metadata, fileName, currentFilePath, a2lTree,
                    selectedTreeItemId, isEditing, recentA2lFiles, editor >>
    /\ UNCHANGED others

-----------------------------------------------------------------------------
(* Editor handlers *)

AppUnchanged == UNCHANGED << store, disk, activeView, metadata, fileName, currentFilePath, status,
                             isBusy, a2lTree, selectedTreeItemId, isEditing, recentA2lFiles,
                             others >>

\* A faulty variant: every change of a field is submitted at once.
EditFieldSubmits(v) ==
    /\ FormShown(editor)
    /\ v # editor.data.val
    /\ HasRoom(tasks)
    /\ editor' = [editor EXCEPT !.data.val = v]
    /\ tasks' = Put(tasks, UpdateTask(editor'))
    /\ last' = Step("step", "none")
    /\ AppUnchanged

\* A form field's onChange: setData({...data, field: value})
EditField(v) ==
    /\ FormShown(editor)
    /\ v # editor.data.val
    /\ editor' = [editor EXCEPT !.data.val = v]
    /\ last' = Step("step", "none")
    /\ UNCHANGED tasks
    /\ AppUnchanged

\* The names typed into the Name field
TypedNames == {"c1", "r1"}

\* The Name field's onChange: setData({...data, name: value})
EditName(n) ==
    /\ FormShown(editor)
    /\ n # editor.data.name
    /\ editor' = [editor EXCEPT !.data.name = n]
    /\ last' = Step("step", "none")
    /\ UNCHANGED tasks
    /\ AppUnchanged

\* The get_<kind> promise of the fetch effect settles
GetDone(i) ==
    /\ tasks[i].op = "get"
    /\ tasks[i].stage = "done"
    /\ editor' = ApplyGet(editor, tasks[i])
    /\ tasks' = Drop(tasks, i)
    /\ last' = Step("GetDone", IF tasks[i].active THEN "applied" ELSE "stale")
    /\ AppUnchanged

\* The Save button: handleSave up to its await
Save ==
    /\ FormShown(editor)
    /\ ~editor.isSaving
    /\ HasRoom(tasks)
    /\ tasks' = Put(tasks, UpdateTask(editor))
    /\ editor' = IF HasLoading(editor.kind) THEN editor
                 ELSE [editor EXCEPT !.isSaving = TRUE, !.error = NoStr]
    /\ last' = Step("step", "none")
    /\ AppUnchanged

\* handleSave after update_<kind> resolved: onSave()
UpdateOk(i) ==
    /\ tasks[i].op = "update"
    /\ tasks[i].stage = "done"
    /\ tasks[i].res.ok
    /\ LET r == onSave(tasks, i)
       IN  /\ isEditing' = r.isEditing
           /\ Rendered(activeView, r.isEditing, a2lTree, selectedTreeItemId, r.tasks)
    /\ last' = Step("UpdateOk", "none")
    /\ UNCHANGED << store, disk, activeView, metadata, fileName, currentFilePath, status, isBusy,
                    a2lTree, recentA2lFiles >>
    /\ UNCHANGED others

\* handleSave after update_<kind> rejected: the catch
UpdateFailed(i) ==
    /\ tasks[i].op = "update"
    /\ tasks[i].stage = "done"
    /\ ~tasks[i].res.ok
    /\ editor' = SaveFailed(editor, tasks[i])
    /\ tasks' = Drop(tasks, i)
    /\ last' = Step("UpdateFailed", IF tasks[i].mounted THEN "mounted" ELSE "unmounted")
    /\ AppUnchanged

\* The Cancel button of the form (disabled in AxisPtsEditor while saving), or
\* the close button of AxisPtsEditor's error alert: onCancel()
Cancel ==
    /\ \/ FormShown(editor) /\ ~editor.isSaving
       \/ AlertShown(editor) /\ editor.kind = "AxisPts"
    /\ LET r == onCancel(tasks)
       IN  /\ isEditing' = r.isEditing
           /\ Rendered(activeView, r.isEditing, a2lTree, selectedTreeItemId, r.tasks)
    /\ last' = Step("Cancel", IF FormShown(editor) THEN "form" ELSE "alert")
    /\ UNCHANGED << store, disk, activeView, metadata, fileName, currentFilePath, status, isBusy,
                    a2lTree, recentA2lFiles >>
    /\ UNCHANGED others

-----------------------------------------------------------------------------

\* The edit session on one dataset: browsing, editing, saving, cancelling,
\* switching the view, with the backend's steps and the handlers' continuations.
NextEdit ==
    \/ \E v \in Views : SwitchView(v)
    \/ OpenFile("fb")
    \/ \E id \in TreeNodeIds(a2lTree) : SelectNode(id)
    \/ BeginEdit
    \/ \E v \in Vals : EditField(v)
    \/ Save
    \/ Cancel
    \/ \E i \in DOMAIN tasks :
          \/ BackendLoad(i) \/ BackendTree(i) \/ BackendGet(i) \/ BackendUpdate(i)
          \/ OpenLoaded(i) \/ OpenTreeDone(i) \/ RefreshDone(i)
          \/ GetDone(i) \/ UpdateOk(i) \/ UpdateFailed(i)

SpecEdit == Init /\ [][NextEdit]_vars

\* Fetching the detail while datasets are replaced: two dataset files,
\* browsing, opening and closing the editor.
NextFetch ==
    \/ \E v \in Views : SwitchView(v)
    \/ \E f \in {"fa", "fb"} : OpenFile(f)
    \/ \E id \in TreeNodeIds(a2lTree) : SelectNode(id)
    \/ BeginEdit
    \/ Cancel
    \/ \E i \in DOMAIN tasks :
          \/ BackendLoad(i) \/ BackendTree(i) \/ BackendGet(i)
          \/ OpenLoaded(i) \/ OpenTreeDone(i) \/ GetDone(i)

SpecFetch == Init /\ [][NextFetch]_vars

\* Opening and browsing: every file, the recent list, the created dataset.
NextOpen ==
    \/ \E f \in Files : OpenFile(f)
    \/ \E k \in 1..RecentMax : OpenRecent(k)
    \/ CreateA2l
    \/ \E id \in TreeNodeIds(a2lTree) : SelectNode(id)
    \/ StatusTimeout
    \/ \E i \in DOMAIN tasks :
          \/ BackendLoad(i) \/ BackendTree(i)
          \/ OpenLoaded(i) \/ OpenTreeDone(i) \/ OpenFailed(i)
          \/ CreateLoaded(i) \/ CreateTreeDone(i)

SpecOpen == Init /\ [][NextOpen]_vars

\* Saving and importing: one dataset file, the editor opened and saved
\* without changes, the Save button, the import view with its binaries.
NextImport ==
    \/ \E v \in Views : SwitchView(v)
    \/ OpenFile("fb")
    \/ BeginEdit
    \/ Save
    \/ \E e \in {NoStr, PathOf("fb")} : SaveA2l(e)
    \/ LoadElf("ea", TRUE)
    \/ SelectAllSymbols(TRUE)
    \/ AddSymbols
    \/ \E i \in DOMAIN tasks :
          \/ BackendLoad(i) \/ BackendTree(i) \/ BackendGet(i) \/ BackendUpdate(i)
          \/ BackendSave(i) \/ BackendElf(i) \/ BackendMerge(i)
          \/ OpenLoaded(i) \/ OpenTreeDone(i) \/ RefreshDone(i)
          \/ GetDone(i) \/ UpdateOk(i) \/ UpdateFailed(i)
          \/ SaveDone(i) \/ ElfDone(i)
          \/ MergeLoaded(i) \/ MergeTreeDone(i)

SpecImport == Init /\ [][NextImport]_vars

\* Adding symbols: the dataset file whose entities carry long identifiers,
\* one binary, any selection of its symbols.
NextMerge ==
    \/ \E v \in Views : SwitchView(v)
    \/ OpenFile(SearchFile)
    \/ LoadElf("ea", TRUE)
    \/ \E n \in SymbolNames(elfSymbols) : ToggleSymbol(n)
    \/ AddSymbols
    \/ \E i \in DOMAIN tasks :
          \/ BackendLoad(i) \/ BackendTree(i) \/ BackendElf(i) \/ BackendMerge(i)
          \/ OpenLoaded(i) \/ OpenTreeDone(i) \/ ElfDone(i)
          \/ MergeLoaded(i) \/ MergeTreeDone(i)

SpecMerge == Init /\ [][NextMerge]_vars

\* Renaming: one dataset file with one entity, the editor with its Name
\* field and its limits.
NextRename ==
    \/ OpenFile("fc")
    \/ \E id \in TreeNodeIds(a2lTree) : SelectNode(id)
    \/ BeginEdit
    \/ \E n \in TypedNames : EditName(n)
    \/ \E v \in Vals : EditField(v)
    \/ Save
    \/ \E i \in DOMAIN tasks :
          \/ BackendLoad(i) \/ BackendTree(i) \/ BackendGet(i) \/ BackendUpdate(i)
          \/ OpenLoaded(i) \/ OpenTreeDone(i) \/ RefreshDone(i)
          \/ GetDone(i) \/ UpdateOk(i) \/ UpdateFailed(i)

SpecRename == Init /\ [][NextRename]_vars

\* Durability: one dataset file with one entity, editing its limits, saving
\* to the file, restarting.
NextDurable ==
    \/ OpenFile("fc")
    \/ \E id \in TreeNodeIds(a2lTree) : SelectNode(id)
    \/ BeginEdit
    \/ \E v \in Vals : EditField(v)
    \/ Save
    \/ \E e \in {NoStr, PathOf("fc")} : SaveA2l(e)
    \/ Restart
    \/ \E i \in DOMAIN tasks :
          \/ BackendLoad(i) \/ BackendTree(i) \/ BackendGet(i) \/ BackendUpdate(i)
          \/ BackendSave(i)
          \/ OpenLoaded(i) \/ OpenTreeDone(i) \/ RefreshDone(i)
          \/ GetDone(i) \/ UpdateOk(i) \/ UpdateFailed(i) \/ SaveDone(i)

SpecDurable == Init /\ [][NextDurable]_vars

\* Pagination: the dataset with long sections, opened and opened again,
\* expanding and collapsing, Load more.
SectionIds == {"sec_meas", "sec_char", "sec_axis"}

\* The nodes of the tree view that expand: the container and its sections
ContainerNodes ==
    {ModuleNode([id |-> "mod_1"])} \cup {SectionNode([id |-> sid]) : sid \in SectionIds}

InitPaging ==
    InitOn([k \in RecentKeys |-> Absent], [f \in {BigFile} |-> BigContents])

NextPaging ==
    \/ OpenFile(BigFile)
    \/ \E node \in ContainerNodes : ToggleExpanded(node)
    \/ \E sid \in SectionIds : LoadMore(sid)
    \/ \E i \in DOMAIN tasks :
          \/ BackendLoad(i) \/ BackendTree(i)
          \/ OpenLoaded(i) \/ OpenTreeDone(i)

SpecPaging == InitPaging /\ [][NextPaging]_vars

\* Replacing a projection whose first section has a raised limit: by an
\* open, by a create, by the refresh after a save in the editor.
NextReset ==
    \/ OpenFile(BigFile)
    \/ CreateA2l
    \/ ToggleExpanded(SectionNode([id |-> "sec_meas"]))
    \/ LoadMore("sec_meas")
    \/ BeginEdit
    \/ Save
    \/ \E i \in DOMAIN tasks :
          \/ BackendLoad(i) \/ BackendTree(i) \/ BackendGet(i) \/ BackendUpdate(i)
          \/ OpenLoaded(i) \/ OpenTreeDone(i) \/ CreateLoaded(i) \/ CreateTreeDone(i)
          \/ GetDone(i) \/ UpdateOk(i) \/ UpdateFailed(i) \/ RefreshDone(i)

SpecReset == InitPaging /\ [][NextReset]_vars

\* The same, by an open and by the refresh after a merge.
NextResetMerge ==
    \/ \E v \in Views : SwitchView(v)
    \/ OpenFile(BigFile)
    \/ ToggleExpanded(SectionNode([id |-> "sec_meas"]))
    \/ LoadMore("sec_meas")
    \/ LoadElf("eb", TRUE)
    \/ SelectAllSymbols(TRUE)
    \/ AddSymbols
    \/ \E i \in DOMAIN tasks :
          \/ BackendLoad(i) \/ BackendTree(i) \/ BackendElf(i) \/ BackendMerge(i)
          \/ OpenLoaded(i) \/ OpenTreeDone(i)
          \/ ElfDone(i) \/ MergeLoaded(i) \/ MergeTreeDone(i)

SpecResetMerge == InitPaging /\ [][NextResetMerge]_vars

\* Moving the selection while the editor is open: one file with two
\* Measurements, the fields of the form left as fetched.
NextRetarget ==
    \/ OpenFile("fa")
    \/ \E id \in TreeNodeIds(a2lTree) : SelectNode(id)
    \/ BeginEdit
    \/ Save
    \/ Cancel
    \/ \E i \in DOMAIN tasks :
          \/ BackendLoad(i) \/ BackendTree(i) \/ BackendGet(i) \/ BackendUpdate(i)
          \/ OpenLoaded(i) \/ OpenTreeDone(i) \/ RefreshDone(i)
          \/ GetDone(i) \/ UpdateOk(i) \/ UpdateFailed(i)

SpecRetarget == Init /\ [][NextRetarget]_vars

\* Where a save goes: a file that loads and one that does not, both with a
\* path, the created dataset, and saving with or without a prompt.
NextLocation ==
    \/ \E f \in {"fa", "fx"} : OpenFile(f)
    \/ CreateA2l
    \/ \E e \in {NoStr, PathOf("fc")} : SaveA2l(e)
    \/ \E i \in DOMAIN tasks :
          \/ BackendLoad(i) \/ BackendTree(i) \/ BackendSave(i)
          \/ OpenLoaded(i) \/ OpenTreeDone(i) \/ OpenFailed(i)
          \/ CreateLoaded(i) \/ CreateTreeDone(i) \/ SaveDone(i)

SpecLocation == Init /\ [][NextLocation]_vars

\* The import view alone: every binary, with or without a path, the recent
\* list, the selection of symbols.
NextBinary ==
    \/ \E v \in Views : SwitchView(v)
    \/ \E b \in Binaries, located \in BOOLEAN : LoadElf(b, located)
    \/ \E k \in 1..RecentMax : LoadRecentElf(k)
    \/ \E n \in SymbolNames(elfSymbols) : ToggleSymbol(n)
    \/ \E checked \in BOOLEAN : SelectAllSymbols(checked)
    \/ StatusTimeout
    \/ \E i \in DOMAIN tasks : BackendElf(i) \/ ElfDone(i)

SpecBinary == Init /\ [][NextBinary]_vars

\* Searching: a dataset file, the search box, clicks on the nodes shown.
NextFilter ==
    \/ OpenFile(SearchFile)
    \/ \E q \in Typed(searchQuery) : SetQuery(q)
    \/ \E id \in TreeNodeIds(a2lTree) : SelectNode(id)
    \/ \E i \in DOMAIN tasks :
          \/ BackendLoad(i) \/ BackendTree(i)
          \/ OpenLoaded(i) \/ OpenTreeDone(i)

SpecFilter == Init /\ [][NextFilter]_vars

\* Opening datasets and binaries that have a path, one while another is
\* still being opened, and the recent lists they are recorded in.
NextRecent ==
    \/ \E v \in Views : SwitchView(v)
    \/ \E f \in {"fb", "fc"} : OpenFileLocated(f)
    \/ \E b \in Readable : LoadElf(b, TRUE)
    \/ \E k \in 1..RecentMax : LoadRecentElf(k)
    \/ \E i \in DOMAIN tasks :
          \/ BackendLoad(i) \/ BackendTree(i) \/ BackendElf(i)
          \/ OpenLoaded(i) \/ OpenTreeDone(i) \/ ElfDone(i)

SpecRecent == Init /\ [][NextRecent]_vars

-----------------------------------------------------------------------------
(* Properties of the editor session *)

\* The list_a2l_tree requests of refreshTree in flight
Refreshes(tk) == Cardinality({j \in DOMAIN tk : tk[j].op = "refresh"})

\* C1 as stated: whenever update_<kind> fails, the session is then Editing on
\* the entity the command was sent for, the failure message is attached, and
\* the buffer holds the values that were submitted.
UpdateFailureKeepsCommittedBuffer ==
    [][\A i \in DOMAIN tasks :
         UpdateFailed(i) =>
           /\ isEditing'
           /\ editor' # Nil
           /\ editor'.kind = tasks[i].kind
           /\ editor'.initialName = tasks[i].name
           /\ editor'.error # NoStr
           /\ editor'.data = tasks[i].data]_vars

\* C1 amended: whenever update_<kind> fails and the editor that sent it is
\* still mounted, the session stays Editing, the editor keeps the target and
\* the buffer it has when the answer arrives, and the failure message is
\* attached to it.
UpdateFailureKeepsSession ==
    [][\A i \in DOMAIN tasks :
         (UpdateFailed(i) /\ tasks[i].mounted) =>
           /\ isEditing /\ isEditing'
           /\ editor # Nil /\ editor' # Nil
           /\ editor'.kind = editor.kind
           /\ editor'.initialName = editor.initialName
           /\ editor'.data = editor.data
           /\ editor'.error # NoStr]_vars

\* A failed update has just reached the editor that sent it.
UpdateFailureShown ==
    /\ last = Step("UpdateFailed", "mounted")
    /\ isEditing
    /\ FormShown(editor)
    /\ editor.error = "update failed"

\* C2 as stated: while the session is Editing an entity and the step does not
\* close the editor, the edit target stays that entity (so no detail of
\* another entity is fetched into the session).
EditTargetStays ==
    [][(isEditing /\ editor # Nil /\ isEditing' /\ editor' # Nil) =>
         (editor'.kind = editor.kind /\ editor'.initialName = editor.initialName)]_vars

\* C3 as stated: the session is Editing only with the detail of the entity
\* fetched; while get_<kind> is pending, and after it failed, the session is
\* Viewing.
EditingOnlyWithFetchedDetail == isEditing => (editor # Nil /\ editor.data # Nil)

\* C4: when update_<kind> succeeds the session leaves Editing and one
\* list_a2l_tree request is issued; when it fails none is issued.
UpdateSuccessRefreshes ==
    [][\A i \in DOMAIN tasks :
         /\ UpdateOk(i) =>
              /\ ~isEditing'
              /\ editor' = Nil
              /\ Refreshes(tasks') = Refreshes(tasks) + 1
              /\ \E j \in DOMAIN tasks' : tasks'[j].op = "refresh" /\ tasks'[j].stage = "sent"
         /\ UpdateFailed(i) =>
              /\ Refreshes(tasks') = Refreshes(tasks)
              /\ Len(tasks') = Len(tasks) - 1]_vars

\* An update has just succeeded: the editor is closed and the refresh is on its way.
UpdateSuccessSeen ==
    /\ last.act = "UpdateOk"
    /\ ~isEditing
    /\ editor = Nil
    /\ \E j \in DOMAIN tasks : tasks[j].op = "refresh" /\ tasks[j].stage = "sent"

\* C5: Cancel returns the session to Viewing and discards the buffer; it
\* issues no command and leaves the store, the projection and the selection
\* as they are.
CancelOnlyClosesEditor ==
    [][Cancel =>
         /\ ~isEditing'
         /\ editor' = Nil
         /\ store' = store
         /\ a2lTree' = a2lTree
         /\ selectedTreeItemId' = selectedTreeItemId
         /\ Len(tasks') = Len(tasks)
         /\ \A j \in DOMAIN tasks :
              tasks'[j].op = tasks[j].op /\ tasks'[j].stage = tasks[j].stage]_vars

\* The form has just been cancelled.
CancelSeen ==
    /\ last = Step("Cancel", "form")
    /\ ~isEditing
    /\ editor = Nil
    /\ selectedTreeItemId # Nil

\* C6: an answer to get_<kind> changes the editor only if the editor that
\* asked is still mounted and still open on the name asked for.
StaleFetchDiscarded ==
    [][\A i \in DOMAIN tasks :
         (GetDone(i) /\ ~(/\ tasks[i].mounted
                          /\ editor # Nil
                          /\ editor.kind = tasks[i].kind
                          /\ editor.initialName = tasks[i].name))
           => editor' = editor]_vars

\* A stale answer has just arrived while an editor is open.
StaleFetchSeen ==
    /\ last = Step("GetDone", "stale")
    /\ isEditing
    /\ editor # Nil

-----------------------------------------------------------------------------
(* Properties of the selection and of opening *)

\* C7: the selection is empty or the id of an Item of the projection last
\* fetched, and it is empty while no projection is loaded.
SelectionInProjection ==
    /\ a2lTree = Nil => selectedTreeItemId = Nil
    /\ selectedTreeItemId # Nil => treeItemLookupHas(a2lTree, selectedTreeItemId)

\* A replacement of the projection has just lost the selected item, and the
\* selection has been repaired.
SelectionRepaired ==
    /\ last.act = "replace" /\ last.note = "lost"
    /\ selectedTreeItemId # Nil

\* C8 as stated: the selection is empty only if the projection has no Item.
SelectionEmptyOnlyIfNoItem ==
    (a2lTree # Nil /\ selectedTreeItemId = Nil) => Len(FlatItems(a2lTree)) = 0

\* C9: a step that replaces the projection leaves the selection as it is when
\* the new projection has an Item of the selected id.
RefreshKeepsSelection ==
    [][(/\ last'.act = "replace"
        /\ selectedTreeItemId # Nil
        /\ treeItemLookupHas(a2lTree', selectedTreeItemId))
         => selectedTreeItemId' = selectedTreeItemId]_vars

\* A replacement has just kept a selection that is not the first item of the
\* new projection.
SelectionKeptElsewhere ==
    /\ last.act = "replace" /\ last.note = "kept"
    /\ selectedTreeItemId # Nil
    /\ FirstItem(a2lTree) # Nil
    /\ FirstItem(a2lTree).id # selectedTreeItemId.id

\* C10 as stated: when an open fails the error is shown, and the metadata,
\* the projection, the selection, the file name and the save location are
\* those of before the attempt.
FailedOpenRestoresState ==
    [][\A i \in DOMAIN tasks :
         OpenFailed(i) =>
           /\ status'.type = "error"
           /\ metadata' = metadata
           /\ a2lTree' = a2lTree
           /\ selectedTreeItemId' = selectedTreeItemId
           /\ fileName' = tasks[i].prior.fileName
           /\ currentFilePath' = tasks[i].prior.currentFilePath]_vars

-----------------------------------------------------------------------------
(* Properties of the command channel *)

\* The commands that work on the loaded dataset: list_a2l_tree, get_<kind>,
\* update_<kind>, save_a2l_to_path, create_measurements_from_elf
NeedsDataset(t) ==
    \/ t.op \in {"get", "update", "refresh", "save", "merge"}
    \/ t.cmd = "list_a2l_tree"

\* C11: a command that works on the loaded dataset is in flight only after a
\* load command (of an open or of a create) has succeeded: the backend holds
\* a dataset and the UI has received its metadata.
CommandsNeedLoadedDataset ==
    \A i \in DOMAIN tasks :
        NeedsDataset(tasks[i]) => (store # Nil /\ metadata # Nil)

\* The save command and the merge command are in flight together.
SaveAndMergeInFlight ==
    /\ \E i \in DOMAIN tasks : tasks[i].op = "save" /\ tasks[i].stage = "sent"
    /\ \E i \in DOMAIN tasks :
          tasks[i].op = "merge" /\ tasks[i].cmd = "create_measurements_from_elf"

-----------------------------------------------------------------------------
(* Properties of the recent lists *)

\* C12 as stated: when an open of a dataset or of a binary that has a path
\* completes, its entry is in the recent list of its kind, and an entry of a
\* recent list stays in it (the files and binaries of this specification
\* are fewer than 8, so no entry is ever the ninth), also when opens overlap.
RecordedEntryStays ==
    [][/\ \A i \in DOMAIN tasks :
            /\ (OpenTreeDone(i) /\ tasks[i].path # NoStr) => Listed(recentA2lFiles', tasks[i])
            /\ (ElfDone(i) /\ tasks[i].res.ok) => Listed(recentElfFiles', tasks[i])
       /\ \A k \in DOMAIN recentA2lFiles : Listed(recentA2lFiles', recentA2lFiles[k])
       /\ \A k \in DOMAIN recentElfFiles : Listed(recentElfFiles', recentElfFiles[k])]_vars

\* An entry that has a location
Located(e) == e.path # NoStr /\ e.path # ""

SamePair(e, n, p) == e.name = n /\ e.path = p

\* C13: after an entry with a location is recorded, the list of its kind
\* (in memory, and as read back from the storage) has it in first position
\* and holds exactly one entry of its (name, path) pair, also when the pair
\* was in the list before.
RecordPutsEntryFirst ==
    [][\A key \in RecentKeys, n \in RegistryNames, p \in RegistryPaths :
         (RecordOpened(key, n, p) /\ Located(Entry(n, p, 0))) =>
            LET list == loadRecents(storage', key)
            IN  /\ Len(list) >= 1
                /\ SamePair(list[1], n, p)
                /\ Cardinality({k \in DOMAIN list : SamePair(list[k], n, p)}) = 1
                /\ RecentList(key)' = list]_vars

\* A (name, path) pair that was in a list of several entries has just been
\* recorded again.
RecordedAgain ==
    /\ last = Step("record", "again")
    /\ \E key \in RecentKeys : Len(RecentList(key)) >= 2

NewestFirst(list) ==
    \A j, k \in DOMAIN list : j < k => list[j].lastOpened > list[k].lastOpened

NoEntryWithoutLocation ==
    /\ [](\A key \in RecentKeys :
            /\ \A k \in DOMAIN RecentList(key) : Located(RecentList(key)[k])
            /\ \A k \in DOMAIN loadRecents(storage, key) :
                  Located(loadRecents(storage, key)[k]))
    /\ [][/\ \A key \in RecentKeys, n \in RegistryNames, p \in RegistryPaths :
              (RecordOpened(key, n, p) /\ ~Located(Entry(n, p, 0))) =>
                 UNCHANGED << storage, recentA2lFiles, recentElfFiles >>
          /\ \A key \in RecentKeys :
              storage'[key] # storage[key] =>
                 \A k \in DOMAIN storage'[key].elems : Located(storage'[key].elems[k])]_vars

\* An open without a location has just ended, while the storage holds an
\* entry without a location under a key whose list is not empty.
EntryWithoutLocationSkipped ==
    /\ last = Step("record", "none")
    /\ \E key \in RecentKeys :
          /\ storage[key].json = "array"
          /\ \E k \in DOMAIN storage[key].elems :
                storage[key].elems[k] # JsonNull /\ ~Located(storage[key].elems[k])
          /\ Len(RecentList(key)) >= 1

\* C16: reading a list never throws, and gives the empty list when the key
\* is absent, holds a text that does not parse or a value that is no array;
\* an entry recorded then makes the list, in memory and as read back, the
\* one-entry list of it.
MalformedStorageReadsEmpty ==
    /\ [](\A key \in RecentKeys :
            /\ ~ReadRecents(storage, key).threw
            /\ storage[key] \in {Absent, Unparsable, NotArray} =>
                  loadRecents(storage, key) = << >>)
    /\ [][\A key \in RecentKeys, n \in RegistryNames, p \in RegistryPaths :
            (/\ RecordOpened(key, n, p)
             /\ Located(Entry(n, p, 0))
             /\ storage[key] \in {Absent, Unparsable, NotArray}) =>
               /\ RecentList(key)' = << Entry(n, p, DateNow) >>
               /\ loadRecents(storage', key) = << Entry(n, p, DateNow) >>]_vars

\* An entry has just been recorded in a list that was read as empty.
FirstEntryRecorded ==
    /\ last = Step("record", "first")
    /\ \E key \in RecentKeys :
          Len(RecentList(key)) = 1 /\ loadRecents(storage, key) = RecentList(key)

-----------------------------------------------------------------------------
(* Properties of the search *)

\* Two characters are the same letter, whatever their case
SameLetter(x, y) ==
    \/ x = y
    \/ {x, y} \in {{"a", "A"}, {"b", "B"}, {"c", "C"}, {"m", "M"}, {"p", "P"}}

\* The text contains the query, case-insensitively
Contains(text, q) ==
    \E i \in 0..Len(text) :
        /\ i + Len(q) <= Len(text)
        /\ \A j \in 1..Len(q) : SameLetter(text[i + j], q[j])

\* The Item's display-name, kind tag or description contains the query
Matched(item, q) ==
    \/ Contains(TextOf(item.name), q)
    \/ Contains(TextOf(item.kind), q)
    \/ Contains(TextOf(item.description), q)

\* The projection with exactly the Items that match, the Sections that keep
\* an Item and the Containers that keep a Section, in their order
ExpectedSection(section, q) ==
    [section EXCEPT !.items = SelectSeq(section.items, LAMBDA it : Matched(it, q))]

ExpectedModule(module, q) ==
    [module EXCEPT !.sections =
        SelectSeq([k \in DOMAIN module.sections |-> ExpectedSection(module.sections[k], q)],
                  LAMBDA x : Len(x.items) > 0)]

Expected(tree, q) ==
    [modules |-> SelectSeq([k \in DOMAIN tree.modules |-> ExpectedModule(tree.modules[k], q)],
                           LAMBDA x : Len(x.sections) > 0)]

\* The query is not empty and has no white space at either end
PlainQuery(q) == Len(q) > 0 /\ q[1] # " " /\ q[Len(q)] # " "

\* C17: for a query that is not empty and has no white space at either end,
\* the filtered projection holds exactly the Items whose display-name, kind
\* tag or description contains the query case-insensitively, the Sections
\* that keep an Item and the Containers that keep a Section, in the original
\* order; detail values, section titles and container names do not count.
FilterKeepsExactlyMatches ==
    (a2lTree # Nil /\ PlainQuery(searchQuery)) =>
        filteredTree(a2lTree, searchQuery) = Expected(a2lTree, searchQuery)

\* A query with a capital letter keeps some Items of the projection and
\* drops others, and with them a whole Section.
FilterKeepsSome ==
    /\ a2lTree # Nil
    /\ PlainQuery(searchQuery)
    /\ \E j \in DOMAIN searchQuery : searchQuery[j] = "A"
    /\ LET f == filteredTree(a2lTree, searchQuery)
       IN  /\ Len(FlatItems(f)) >= 1
           /\ Len(FlatItems(f)) < Len(FlatItems(a2lTree))
           /\ Len(f.modules) = 1
           /\ Len(f.modules[1].sections) < Len(a2lTree.modules[1].sections)

NoItemMatched(tree, q) ==
    \A k \in DOMAIN FlatItems(tree) : ~Matched(FlatItems(tree)[k], q)

\* C18 as stated: for every query that is not empty and matches no Item,
\* the filtered projection has no Container.
NoMatchNoContainerAnyQuery ==
    (a2lTree # Nil /\ Len(searchQuery) > 0 /\ NoItemMatched(a2lTree, searchQuery)) =>
        Len(filteredTree(a2lTree, searchQuery).modules) = 0

\* The query without the white space at its ends
Stripped(q) ==
    LET idx == {i \in DOMAIN q : q[i] # " "}
    IN  IF idx = {} THEN << >>
        ELSE SubSeq(q, CHOOSE i \in idx : \A j \in idx : i <= j,
                       CHOOSE i \in idx : \A j \in idx : j <= i)

\* C18 amended: for every query that, without the white space at its ends,
\* is not empty and matches no Item, the filtered projection has no
\* Container.
NoMatchNoContainer ==
    (/\ a2lTree # Nil
     /\ Len(Stripped(searchQuery)) > 0
     /\ NoItemMatched(a2lTree, Stripped(searchQuery))) =>
        Len(filteredTree(a2lTree, searchQuery).modules) = 0

\* A query that no Item matches has just been typed over a projection that
\* has Items and a Container whose name contains the query.
NoMatchSeen ==
    /\ last.act = "SetQuery"
    /\ a2lTree # Nil
    /\ Len(FlatItems(a2lTree)) > 0
    /\ Len(Stripped(searchQuery)) > 0
    /\ NoItemMatched(a2lTree, Stripped(searchQuery))
    /\ \E m \in DOMAIN a2lTree.modules :
          Contains(TextOf(a2lTree.modules[m].name), Stripped(searchQuery))

\* C19: a step that changes the search query issues no command and leaves
\* the projection, the selection, the pagination limits and the store as
\* they are; the view shown holds only Items of the projection fetched last.
SearchOnlyFilters ==
    /\ [][searchQuery' # searchQuery =>
            /\ tasks' = tasks
            /\ a2lTree' = a2lTree
            /\ selectedTreeItemId' = selectedTreeItemId
            /\ sectionItemLimit' = sectionItemLimit
            /\ store' = store]_vars
    /\ [](\A k \in DOMAIN FlatItems(filteredTree(a2lTree, searchQuery)) :
            \E j \in DOMAIN FlatItems(a2lTree) :
                FlatItems(a2lTree)[j] = FlatItems(filteredTree(a2lTree, searchQuery))[k])

\* The query has just been changed while a command is in flight, and the
\* selected Item is not among the Items shown.
SelectionFilteredOut ==
    /\ last.act = "SetQuery"
    /\ Len(tasks) > 0
    /\ selectedTreeItemId # Nil
    /\ selectedTreeItemId \notin TreeNodeIds(filteredTree(a2lTree, searchQuery))

-----------------------------------------------------------------------------
(* Properties of the merge *)

IsMeasurement(st, n) ==
    \E j \in DOMAIN st.ents : st.ents[j].kind = "Measurement" /\ st.ents[j].name = n

\* The input symbols that carry the name of a Measurement of the store
Existing(st, syms) == {k \in DOMAIN syms : IsMeasurement(st, syms[k].name)}

\* C20 as stated: a merge of N symbols, M of which carry the name of an
\* existing Measurement, creates N - M entities and reports N - M.
MergeCreatesAllButExisting ==
    [][\A i \in DOMAIN tasks :
         (BackendMerge(i) /\ store # Nil) =>
            LET N == Len(tasks[i].symbols)
                M == Cardinality(Existing(store, tasks[i].symbols))
            IN  /\ Len(store'.ents) + M = Len(store.ents) + N
                /\ tasks'[i].res.val.createdCount + M = N]_vars

\* The names among the input symbols that no Measurement of the store carries
NewNames(st, syms) == {syms[k].name : k \in DOMAIN syms} \ {n \in SymbolNames(syms) : IsMeasurement(st, n)}

\* C20 amended: a merge creates one Measurement for each name among the
\* input symbols that no existing Measurement carries (however many input
\* symbols carry that name), reports their number, and leaves the entities
\* that were there as they are.
MergeCreatesNewNames ==
    [][\A i \in DOMAIN tasks :
         (BackendMerge(i) /\ store # Nil) =>
            LET new == NewNames(store, tasks[i].symbols)
            IN  /\ Len(store'.ents) = Len(store.ents) + Cardinality(new)
                /\ tasks'[i].res.val.createdCount = Cardinality(new)
                /\ SubSeq(store'.ents, 1, Len(store.ents)) = store.ents
                /\ \A n \in new :
                      Cardinality({j \in DOMAIN store'.ents :
                                     store'.ents[j].kind = "Measurement"
                                     /\ store'.ents[j].name = n}) = 1]_vars

\* A merge has just created at least one entity, and fewer entities than it
\* was given symbols.
MergeSkippedAndCreated ==
    /\ last.act = "BackendMerge"
    /\ \E i \in DOMAIN tasks :
          /\ tasks[i].op = "merge"
          /\ tasks[i].stage = "done"
          /\ tasks[i].res.ok
          /\ tasks[i].res.val.createdCount >= 1
          /\ tasks[i].res.val.createdCount < Len(tasks[i].symbols)

\* C21: a merge leaves every Measurement whose name an input symbol carries
\* as it was, in every field and in its place.
MergeKeepsExisting ==
    [][\A i \in DOMAIN tasks :
         (BackendMerge(i) /\ store # Nil) =>
            \A k \in DOMAIN tasks[i].symbols :
               \A j \in EntIndex(store, "Measurement", tasks[i].symbols[k].name) :
                  /\ j \in DOMAIN store'.ents
                  /\ store'.ents[j] = store.ents[j]]_vars

\* A merge has just met a symbol that carries the name of a Measurement with
\* a long identifier.
MergeMetExisting ==
    /\ last.act = "BackendMerge"
    /\ \E i \in DOMAIN tasks :
          /\ tasks[i].op = "merge"
          /\ tasks[i].stage = "done"
          /\ tasks[i].res.ok
          /\ \E k \in DOMAIN tasks[i].symbols :
                \E j \in EntIndex(store, "Measurement", tasks[i].symbols[k].name) :
                   DescriptionOf(store.ents[j]) # ""

\* C22: the status an add-symbols action ends with reports the number of
\* Measurements the merge created.
AddedCountIsCreated ==
    [][\A i \in DOMAIN tasks :
         MergeTreeDone(i) =>
            status'.message = AddedMessage(tasks[i].result.createdCount)]_vars

-----------------------------------------------------------------------------
(* Properties of the import view *)

\* C23: when the loading of a binary fails, the symbol list, the recent
\* list and the selection stay as they were, the error is shown, and no
\* merge is started.
FailedLoadKeepsImportState ==
    [][\A i \in DOMAIN tasks :
         (ElfDone(i) /\ ~tasks[i].res.ok) =>
            /\ status'.type = "error"
            /\ elfSymbols' = elfSymbols
            /\ recentElfFiles' = recentElfFiles
            /\ selectedElfSymbols' = selectedElfSymbols
            /\ \A j \in DOMAIN tasks' : tasks'[j].op # "merge"]_vars

-----------------------------------------------------------------------------
(* Properties of the update *)

\* C24 as stated: after an update the store accepted, get-entity for the name
\* the update was addressed to returns the submitted detail.
UpdateRoundTripAnyDetail ==
    [][\A i \in DOMAIN tasks :
         (BackendUpdate(i) /\ tasks'[i].res.ok) =>
            GetEntity(store', tasks[i].kind, tasks[i].name)
               = [ok |-> TRUE, val |-> tasks[i].data]]_vars

\* C24 amended: after an update the store accepted whose detail carries the
\* name the update was addressed to, get-entity for that name returns the
\* submitted detail.
UpdateRoundTrip ==
    [][\A i \in DOMAIN tasks :
         (BackendUpdate(i) /\ tasks'[i].res.ok /\ tasks[i].data.name = tasks[i].name) =>
            GetEntity(store', tasks[i].kind, tasks[i].name)
               = [ok |-> TRUE, val |-> tasks[i].data]]_vars

\* An update that changes a limit and leaves the name has been accepted and
\* not yet answered to the editor.
AcceptedUpdateSeen ==
    \E i \in DOMAIN tasks :
       /\ tasks[i].op = "update"
       /\ tasks[i].stage = "done"
       /\ tasks[i].res.ok
       /\ tasks[i].data.name = tasks[i].name
       /\ tasks[i].data.val # 0
       /\ GetEntity(store, tasks[i].kind, tasks[i].name).ok

\* The Items of the projection that show the detail d of an entity of the kind
Shows(tree, kind, d) ==
    {k \in DOMAIN FlatItems(tree) :
        /\ FlatItems(tree)[k].kind = kind
        /\ FlatItems(tree)[k].name = d.name
        /\ FlatItems(tree)[k].val = d.val}

\* C25 as stated: when the projection fetched after a successful commitEdit
\* is applied, the Item of the edited entity shows the submitted values.
RefreshShowsSubmittedAlways ==
    [][\A i \in DOMAIN tasks :
         (RefreshDone(i) /\ tasks[i].res.ok) =>
            Shows(a2lTree', tasks[i].kind, tasks[i].data) # {}]_vars

\* C25 amended: when the projection fetched after a successful commitEdit is
\* applied, and no other command wrote to the store between the update and
\* the building of that projection, the Item of the edited entity shows the
\* submitted values.
RefreshShowsSubmitted ==
    [][\A i \in DOMAIN tasks :
         (RefreshDone(i) /\ tasks[i].res.ok /\ tasks[i].clean) =>
            Shows(a2lTree', tasks[i].kind, tasks[i].data) # {}]_vars

\* The projection fetched after a commitEdit has just been applied and shows
\* a changed limit.
RefreshedWithNewLimit ==
    /\ last.act = "replace"
    /\ store # Nil
    /\ \E k \in DOMAIN FlatItems(a2lTree) : FlatItems(a2lTree)[k].val # 0

-----------------------------------------------------------------------------
(* Properties of saving *)

\* C26: a file changes only when a save to its location succeeds, and then
\* holds the store with every update accepted so far; a restart leaves the
\* files as they are and nothing in the store; an open after it loads what
\* the file holds and a projection is built from what the store holds.
DurableOnlyThroughSave ==
    [][/\ disk' # disk =>
            \E i \in DOMAIN tasks :
               /\ BackendSave(i)
               /\ tasks'[i].res.ok
               /\ disk' = [disk EXCEPT ![FileAt(tasks[i].path)] = store]
       /\ Restart => store' = Nil /\ a2lTree' = Nil /\ disk' = disk
       /\ \A i \in DOMAIN tasks :
             /\ (BackendLoad(i) /\ tasks'[i].res.ok) => store' = disk[tasks[i].file]
             /\ (BackendTree(i) /\ tasks'[i].res.ok) =>
                   tasks'[i].res.val = BuildProjection(store)
             /\ (BackendUpdate(i) \/ BackendGet(i) \/ BackendTree(i)) => disk' = disk]_vars

\* After an edit, a save and a restart: the file holds the edited limit, no
\* projection has been shown since the start, and the projection fetched for
\* the first open shows the edited limit.
EditShownAfterRestart ==
    /\ a2lTree = Nil
    /\ disk["fc"] # Content("fc")
    /\ \E i \in DOMAIN tasks :
          /\ tasks[i].op = "open"
          /\ tasks[i].stage = "done"
          /\ tasks[i].cmd = "list_a2l_tree"
          /\ tasks[i].prior.fileName = ""
          /\ tasks[i].res.ok
          /\ tasks[i].res.val = BuildProjection(disk["fc"])

-----------------------------------------------------------------------------
(* Properties of the pagination *)

\* C27: in a step that does not replace the projection, the limit of a
\* section changes only by Load more on that section, which adds 200 to it
\* and leaves the limits of the other sections; a limit is never below the
\* default window of 200.
LimitsOnlyGrow ==
    [][/\ last'.act # "replace" =>
            \A sid \in SectionIds :
               \/ LimitOf(sectionItemLimit', sid) = LimitOf(sectionItemLimit, sid)
               \/ /\ LoadMore(sid)
                  /\ LimitOf(sectionItemLimit', sid) = LimitOf(sectionItemLimit, sid) + 200
                  /\ \A other \in SectionIds \ {sid} :
                        LimitOf(sectionItemLimit', other) = LimitOf(sectionItemLimit, other)
       /\ \A sid \in SectionIds : LimitOf(sectionItemLimit', sid) >= 200
       /\ DOMAIN sectionItemLimit' \subseteq SectionIds]_vars

\* Load more has been pressed twice on one section and once on another.
LoadedMoreTwice ==
    /\ last.act = "LoadMore"
    /\ LimitOf(sectionItemLimit, "sec_meas") = 600
    /\ LimitOf(sectionItemLimit, "sec_char") = 400

\* C28: a step that replaces the projection leaves every section's limit at
\* the default window of 200.
ReplacementResetsLimits ==
    [][(last'.act = "replace" \/ a2lTree' # a2lTree) =>
          \A sid \in SectionIds : LimitOf(sectionItemLimit', sid) = 200]_vars

\* A projection has just replaced one of which a section's limit was raised.
ReplacedRaisedLimits ==
    /\ last.act = "replace"
    /\ last.raised
    /\ a2lTree # Nil

-----------------------------------------------------------------------------
(* Properties of the edit buffer *)

UpdateCarriesOwnDetail ==
    \A i \in DOMAIN tasks :
       tasks[i].op = "update" => tasks[i].data.name = tasks[i].name

-----------------------------------------------------------------------------
(* Properties of overlapping sessions and commands *)

\* C31: the answer to an update sent by an editor that has been closed since
\* leaves a later edit session as it is: the session stays in Editing and its
\* form keeps its buffer.
StaleUpdateLeavesSession ==
    [][\A i \in DOMAIN tasks :
         (/\ tasks[i].op = "update"
          /\ tasks[i].stage = "done"
          /\ ~tasks[i].mounted
          /\ FormShown(editor)
          /\ tasks' # tasks
          /\ (UpdateOk(i) \/ UpdateFailed(i)))
            => (isEditing' /\ editor' = editor)]_vars

\* C32: a save sent without a prompt goes to the location the loaded dataset
\* was opened from or was last saved to: the file at that location holds a
\* dataset, and it is the project that is loaded.
SaveGoesToOwnLocation ==
    [][(SaveA2l(NoStr) /\ tasks' # tasks) =>
         /\ store # Nil
         /\ disk[FileAt(currentFilePath)] # Nil
         /\ disk[FileAt(currentFilePath)].project = store.project]_vars

\* C33: once every command has been answered and every handler has run to
\* its end, the metadata and the projection shown are those of the dataset in
\* the store.
QuiescentViewIsStore ==
    (Len(tasks) = 0 /\ store # Nil) =>
        /\ metadata = MetadataOf(store)
        /\ a2lTree = BuildProjection(store)

\* C34: a step that replaces the projection, with the selection repair that
\* follows it, neither opens an editor nor moves the open editor to another
\* entity, and after the replacement by an open or a create no editor is open.
ReplacementOpensNoEditor ==
    [][last'.act = "replace" =>
         /\ editor' # Nil =>
               /\ editor # Nil
               /\ editor'.kind = editor.kind
               /\ editor'.initialName = editor.initialName
         /\ (\E i \in DOMAIN tasks : OpenTreeDone(i) \/ CreateTreeDone(i)) => ~isEditing']_vars

\* C35: while an open, a create, a save, a load of symbols or a merge is
\* under way, isBusy is set.
BusyWhileInFlight ==
    (\E i \in DOMAIN tasks : tasks[i].op \in {"open", "create", "save", "elf", "merge"})
        => isBusy

\* C37: every selected symbol is a name of the symbol list shown; with an
\* empty list nothing is selected.
SelectionWithinList == selectedElfSymbols \subseteq SymbolNames(elfSymbols)

====
